---------------------------- MODULE Spec2Model ----------------------------
(***************************************************************************)
(* Model of the task-based user management system: the command parser      *)
(* (parser.hpp), the command registry (registry.hpp), the executors        *)
(* (executor.hpp), the user directory (manager.hpp) and the task processor *)
(* (processor.cpp).                                                        *)
(*                                                                         *)
(* A line is a sequence of characters; a character is a one-element        *)
(* string.  Cursors are 0-based as in the code: At(s, i) is s[i].          *)
(***************************************************************************)
EXTENDS Integers, Sequences, FiniteSets, TLC

VARIABLES
    users,       \* UserManager::users : username -> User
    groups,      \* UserManager::groups
    executors,   \* CommandRegistry::executors : variant -> executor
    numTasks,    \* processTasks: filenames.size()
    taskIdx,     \* processTasks: index of the file being processed (1-based)
    pc,          \* position of the processor
    lines,       \* processTask: lines returned by readTaskFile
    lineIdx,     \* processTask: position of the for loop over lines (1-based)
    parsed,      \* parseCommand: outcome of the top-level parser on the line
    cmdOpt,      \* processTask: the optional Command of the current line
    result,      \* processTask: the CommandResult of the last dispatch
    log,         \* history: the dispatches of the current task, in order
    output,      \* what the current task printed after its header
    status,      \* history: terminal status of every task started so far
    dirtyAtCall, \* history: processTask found users or groups in the directory
    opened,      \* history: whether the file of each task started could be opened
    fileLines,   \* readTaskFile: the lines std::getline read from the file
    sent         \* history: for every user created and not deleted since the
                 \* last reset, the messages sent to it with success, in order

vars == <<users, groups, executors, numTasks, taskIdx, pc, lines, lineIdx, parsed,
          cmdOpt, result, log, output, status, dirtyAtCall, opened, fileLines,
          sent>>

---------------------------------------------------------------------------
(* Bounds of the model *)

\* number of task files handed to processTasks
NumTasks == 2

\* largest number of raw lines in a task file
MaxLines == 2

\* largest number of messages kept for a user in RegistrySpec
MaxMessages == 2

---------------------------------------------------------------------------
(* Characters and the <cctype> classes of the "C" locale *)

SP == " "
TAB == "\t"
LF == "\n"
CR == "\r"
FF == "\f"
\* vertical tab, written as a token of its own
VT == "\\v"
QUOTE == "\""
HASH == "#"
BACKSLASH == "\\"

Upper == {"A", "B", "C", "D", "E", "F", "G", "H", "I", "J", "K", "L", "M",
          "N", "O", "P", "Q", "R", "S", "T", "U", "V", "W", "X", "Y", "Z"}

Lower == {"a", "b", "c", "d", "e", "f", "g", "h", "i", "j", "k", "l", "m",
          "n", "o", "p", "q", "r", "s", "t", "u", "v", "w", "x", "y", "z"}

Digits == <<"0", "1", "2", "3", "4", "5", "6", "7", "8", "9">>

isspace(c) == c \in {SP, TAB, LF, VT, FF, CR}

isalpha(c) == c \in Upper \cup Lower

isdigit(c) == \E d \in 1..10 : Digits[d] = c

isalnum(c) == isalpha(c) \/ isdigit(c)

\* s[i] of the code (0-based)
At(s, i) == s[i + 1]

\* s.substr(start, n)
substr(s, start, n) == SubSeq(s, start + 1, start + n)

\* largest value of int (std::stoi's result type; PingCommand::times is int32_t)
INT_MAX == 2147483647

---------------------------------------------------------------------------
(* Parse outcomes (parsec::makeSuccess, parsec::makeError) and a thrown     *)
(* exception leaving the parser                                            *)

makeSuccess(v, i) == [success |-> TRUE, thrown |-> FALSE, value |-> v, index |-> i]

makeError(msg, i) == [success |-> FALSE, thrown |-> FALSE, value |-> msg, index |-> i]

Thrown(what) == [success |-> FALSE, thrown |-> TRUE, value |-> what, index |-> 0]

---------------------------------------------------------------------------
(* Primitive parsers of CommandParser *)

character(c, s, i) ==
    IF i >= Len(s) THEN makeError("Expected char but reached end of input", i)
    ELSE IF At(s, i) = c THEN makeSuccess(At(s, i), i + 1)
    ELSE makeError("Expected char but found another", i)

\* the loop `while (i < s.size() && std::isspace(s[i])) ++i`
RECURSIVE SkipSpace(_, _)
SkipSpace(s, i) ==
    IF i < Len(s) /\ isspace(At(s, i)) THEN SkipSpace(s, i + 1) ELSE i

whitespace(s, i) ==
    LET start == i
        j == SkipSpace(s, i)
    IN  IF j = start THEN makeError("Expected whitespace", j)
        ELSE makeSuccess(substr(s, start, j - start), j)

\* the loop `while (i < s.size() && (std::isalnum(s[i]) || s[i] == '_')) ++i`
RECURSIVE SkipIdent(_, _)
SkipIdent(s, i) ==
    IF i < Len(s) /\ (isalnum(At(s, i)) \/ At(s, i) = "_")
    THEN SkipIdent(s, i + 1) ELSE i

\* identifier taking any alphanumeric character or underscore first
identifierAnyStart(s, i) ==
    LET start == i
    IN  IF i >= Len(s) \/ ~(isalnum(At(s, i)) \/ At(s, i) = "_")
        THEN makeError("Expected identifier", i)
        ELSE LET j == SkipIdent(s, i)
             IN  makeSuccess(substr(s, start, j - start), j)

identifier(s, i) ==
    LET start == i
    IN  IF i >= Len(s) \/ ~isalpha(At(s, i)) THEN makeError("Expected identifier", i)
        ELSE LET j == SkipIdent(s, i)
             IN  makeSuccess(substr(s, start, j - start), j)

\* the loop `while (i < s.size() && s[i] != '"') ++i`
RECURSIVE SkipToQuote(_, _)
SkipToQuote(s, i) ==
    IF i < Len(s) /\ At(s, i) # QUOTE THEN SkipToQuote(s, i + 1) ELSE i

\* the loop of quotedString stepping over a quote that follows a backslash
RECURSIVE SkipToQuoteEscaped(_, _)
SkipToQuoteEscaped(s, i) ==
    IF i + 1 < Len(s) /\ At(s, i) = BACKSLASH /\ At(s, i + 1) = QUOTE
    THEN SkipToQuoteEscaped(s, i + 2)
    ELSE IF i < Len(s) /\ At(s, i) # QUOTE THEN SkipToQuoteEscaped(s, i + 1)
    ELSE i

\* quotedString in which a backslash keeps the quote after it in the text
quotedStringEscapes(s, i) ==
    IF i >= Len(s) \/ At(s, i) # QUOTE THEN makeError("Expected quoted string", i)
    ELSE LET start == i + 1
             j == SkipToQuoteEscaped(s, start)
         IN  IF j >= Len(s) THEN makeError("Unterminated quoted string", j)
             ELSE makeSuccess(substr(s, start, j - start), j + 1)

quotedString(s, i) ==
    IF i >= Len(s) \/ At(s, i) # QUOTE THEN makeError("Expected quoted string", i)
    ELSE LET start == i + 1
             j == SkipToQuote(s, start)
         IN  IF j >= Len(s) THEN makeError("Unterminated quoted string", j)
             ELSE makeSuccess(substr(s, start, j - start), j + 1)

\* the loop `while (i < s.size() && std::isdigit(s[i])) ++i`
RECURSIVE SkipDigits(_, _)
SkipDigits(s, i) ==
    IF i < Len(s) /\ isdigit(At(s, i)) THEN SkipDigits(s, i + 1) ELSE i

DigitValue(c) == (CHOOSE d \in 1..10 : Digits[d] = c) - 1

\* std::stoi on a string of digits: the decimal value, or -1 when the value
\* does not fit an int (std::out_of_range is thrown)
RECURSIVE stoiFrom(_, _, _)
stoiFrom(numStr, k, acc) ==
    IF k > Len(numStr) THEN acc
    ELSE LET d == DigitValue(numStr[k])
         IN  IF acc > (INT_MAX - d) \div 10 THEN -1
             ELSE stoiFrom(numStr, k + 1, acc * 10 + d)

stoi(numStr) == stoiFrom(numStr, 1, 0)

\* number taking a sign before the digits, as std::stoi itself does
numberSigned(s, i) ==
    LET signed == i < Len(s) /\ At(s, i) \in {"-", "+"}
        start == IF signed THEN i + 1 ELSE i
    IN  IF start >= Len(s) \/ ~isdigit(At(s, start)) THEN makeError("Expected number", i)
        ELSE LET j == SkipDigits(s, start)
                 numStr == substr(s, start, j - start)
             IN  IF stoi(numStr) < 0 THEN Thrown("stoi")
                 ELSE makeSuccess(IF signed /\ At(s, i) = "-"
                                  THEN 0 - stoi(numStr) ELSE stoi(numStr), j)

number(s, i) ==
    LET start == i
    IN  IF i >= Len(s) \/ ~isdigit(At(s, i)) THEN makeError("Expected number", i)
        ELSE LET j == SkipDigits(s, i)
                 numStr == substr(s, start, j - start)
             IN  IF stoi(numStr) < 0 THEN Thrown("stoi")
                 ELSE makeSuccess(stoi(numStr), j)

\* keyword comparing without regard to letter case
keywordAnyCase(word, s, i) ==
    LET upper == <<"A", "B", "C", "D", "E", "F", "G", "H", "I", "J", "K", "L", "M",
                   "N", "O", "P", "Q", "R", "S", "T", "U", "V", "W", "X", "Y", "Z">>
        lower == <<"a", "b", "c", "d", "e", "f", "g", "h", "i", "j", "k", "l", "m",
                   "n", "o", "p", "q", "r", "s", "t", "u", "v", "w", "x", "y", "z">>
        fold(c) == IF \E k \in 1..26 : upper[k] = c
                   THEN lower[CHOOSE k \in 1..26 : upper[k] = c] ELSE c
        folded(w) == [k \in 1..Len(w) |-> fold(w[k])]
    IN  IF i + Len(word) > Len(s) THEN makeError("Expected keyword", i)
        ELSE IF folded(substr(s, i, Len(word))) = folded(word)
        THEN makeSuccess(word, i + Len(word))
        ELSE makeError("Expected keyword", i)

keyword(word, s, i) ==
    IF i + Len(word) > Len(s) THEN makeError("Expected keyword", i)
    ELSE IF substr(s, i, Len(word)) = word THEN makeSuccess(word, i + Len(word))
    ELSE makeError("Expected keyword", i)

---------------------------------------------------------------------------
(* Parsers as values.  A parsec::Parser<T> is a function value; here it is  *)
(* a tree whose leaves are the primitives and whose inner nodes are the    *)
(* combinators >> (keep right), & (pair), | (ordered choice) and fmap.     *)

Keyword(word) == [op |-> "keyword", word |-> word]

Whitespace == [op |-> "whitespace"]

Identifier == [op |-> "identifier"]

QuotedString == [op |-> "quotedString"]

Number == [op |-> "number"]

\* a >> b
Then(a, b) == [op |-> "then", a |-> a, b |-> b]

\* a & b
And(a, b) == [op |-> "and", a |-> a, b |-> b]

\* a | b
Or(a, b) == [op |-> "or", a |-> a, b |-> b]

\* parsec::fmap<Command, T>(f, a); f is named by the variant it builds
Fmap(f, a) == [op |-> "fmap", f |-> f, a |-> a]

\* The lambdas handed to fmap by the per-command parsers
MakeCommand(f, v) ==
    CASE f = "CreateUserCommand" -> [type |-> f, username |-> v]
      [] f = "DeleteUserCommand" -> [type |-> f, username |-> v]
      [] f = "DisableUserCommand" -> [type |-> f, username |-> v]
      [] f = "SendMessageCommand" -> [type |-> f, username |-> v[1], message |-> v[2]]
      [] f = "PingCommand" -> [type |-> f, username |-> v[1], times |-> v[2]]
      [] f = "AddUserToGroupCommand" -> [type |-> f, username |-> v[1], group |-> v[2]]
      [] f = "RemoveUserFromGroupCommand" -> [type |-> f, username |-> v[1], group |-> v[2]]
      [] f = "GetUsersCommand" -> [type |-> f]
      [] f = "GetGroupsCommand" -> [type |-> f]
      [] f = "GetMessageHistoryCommand" -> [type |-> f, username |-> v]
      [] f = "ExitCommand" -> [type |-> f]

\* Running a parser on input s from cursor i
RECURSIVE Run(_, _, _)
Run(p, s, i) ==
    CASE p.op = "keyword" -> keyword(p.word, s, i)
      [] p.op = "whitespace" -> whitespace(s, i)
      [] p.op = "identifier" -> identifier(s, i)
      [] p.op = "quotedString" -> quotedString(s, i)
      [] p.op = "number" -> number(s, i)
      [] p.op = "then" ->
            LET ra == Run(p.a, s, i)
            IN  IF ra.success THEN Run(p.b, s, ra.index) ELSE ra
      [] p.op = "and" ->
            LET ra == Run(p.a, s, i)
            IN  IF ~ra.success THEN ra
                ELSE LET rb == Run(p.b, s, ra.index)
                     IN  IF rb.success
                         THEN makeSuccess(<<ra.value, rb.value>>, rb.index)
                         ELSE rb
      [] p.op = "or" ->
            LET ra == Run(p.a, s, i)
            IN  IF ra.success \/ ra.thrown THEN ra ELSE Run(p.b, s, i)
      [] p.op = "fmap" ->
            LET ra == Run(p.a, s, i)
            IN  IF ra.success THEN makeSuccess(MakeCommand(p.f, ra.value), ra.index)
                ELSE ra

---------------------------------------------------------------------------
(* Keywords of the grammar *)

kwCREATE == <<"C", "R", "E", "A", "T", "E">>
kwDELETE == <<"D", "E", "L", "E", "T", "E">>
kwDISABLE == <<"D", "I", "S", "A", "B", "L", "E">>
kwUSER == <<"U", "S", "E", "R">>
kwSEND == <<"S", "E", "N", "D">>
kwMESSAGE == <<"M", "E", "S", "S", "A", "G", "E">>
kwPING == <<"P", "I", "N", "G">>
kwADD == <<"A", "D", "D">>
kwREMOVE == <<"R", "E", "M", "O", "V", "E">>
kwTO == <<"T", "O">>
kwFROM == <<"F", "R", "O", "M">>
kwGROUP == <<"G", "R", "O", "U", "P">>
kwGET == <<"G", "E", "T">>
kwUSERS == <<"U", "S", "E", "R", "S">>
kwGROUPS == <<"G", "R", "O", "U", "P", "S">>
kwHISTORY == <<"H", "I", "S", "T", "O", "R", "Y">>
kwEXIT == <<"E", "X", "I", "T">>

---------------------------------------------------------------------------
(* The per-command parsers of CommandParser *)

createUserParser ==
    Fmap("CreateUserCommand",
         Then(Then(Then(Then(Keyword(kwCREATE), Whitespace), Keyword(kwUSER)),
                   Whitespace), Identifier))

deleteUserParser ==
    Fmap("DeleteUserCommand",
         Then(Then(Then(Then(Keyword(kwDELETE), Whitespace), Keyword(kwUSER)),
                   Whitespace), Identifier))

disableUserParser ==
    Fmap("DisableUserCommand",
         Then(Then(Then(Then(Keyword(kwDISABLE), Whitespace), Keyword(kwUSER)),
                   Whitespace), Identifier))

sendMessageParser ==
    Fmap("SendMessageCommand",
         And(Then(Then(Then(Then(Keyword(kwSEND), Whitespace), Keyword(kwMESSAGE)),
                       Whitespace), Identifier),
             Then(Whitespace, QuotedString)))

pingParser ==
    Fmap("PingCommand",
         And(Then(Then(Keyword(kwPING), Whitespace), Identifier),
             Then(Whitespace, Number)))

addUserToGroupParser ==
    Fmap("AddUserToGroupCommand",
         And(Then(Then(Then(Then(Keyword(kwADD), Whitespace), Keyword(kwUSER)),
                       Whitespace), Identifier),
             Then(Then(Then(Then(Then(Whitespace, Keyword(kwTO)), Whitespace),
                            Keyword(kwGROUP)), Whitespace), Identifier)))

removeUserFromGroupParser ==
    Fmap("RemoveUserFromGroupCommand",
         And(Then(Then(Then(Then(Keyword(kwREMOVE), Whitespace), Keyword(kwUSER)),
                       Whitespace), Identifier),
             Then(Then(Then(Then(Then(Whitespace, Keyword(kwFROM)), Whitespace),
                            Keyword(kwGROUP)), Whitespace), Identifier)))

getUsersParser ==
    Fmap("GetUsersCommand",
         Then(Then(Keyword(kwGET), Whitespace), Keyword(kwUSERS)))

\* getGroupsParser with the last keyword of getUsersParser
getGroupsParserUsers ==
    Fmap("GetGroupsCommand",
         Then(Then(Keyword(kwGET), Whitespace), Keyword(kwUSERS)))

getGroupsParser ==
    Fmap("GetGroupsCommand",
         Then(Then(Keyword(kwGET), Whitespace), Keyword(kwGROUPS)))

getMessageHistoryParser ==
    Fmap("GetMessageHistoryCommand",
         Then(Then(Then(Then(Then(Then(Keyword(kwGET), Whitespace),
                                       Keyword(kwMESSAGE)), Whitespace),
                             Keyword(kwHISTORY)), Whitespace), Identifier))

exitParser == Fmap("ExitCommand", Keyword(kwEXIT))

\* commandParser without its last alternative
commandParserNoExit ==
    Or(Or(Or(Or(Or(Or(Or(Or(Or(createUserParser,
                               deleteUserParser),
                            disableUserParser),
                         sendMessageParser),
                      pingParser),
                   addUserToGroupParser),
                removeUserFromGroupParser),
             getUsersParser),
          getGroupsParser),
       getMessageHistoryParser)

\* commandParser with a looser alternative for GET ordered first
commandParserLooseGet ==
    Or(Fmap("GetUsersCommand", Keyword(kwGET)),
       Or(Or(Or(Or(Or(Or(Or(Or(Or(Or(createUserParser,
                                     deleteUserParser),
                                  disableUserParser),
                               sendMessageParser),
                            pingParser),
                         addUserToGroupParser),
                      removeUserFromGroupParser),
                   getUsersParser),
                getGroupsParser),
             getMessageHistoryParser),
          exitParser))

\* CommandParser::commandParser: the alternatives, in the order of the code
commandParser ==
    Or(Or(Or(Or(Or(Or(Or(Or(Or(Or(createUserParser,
                                  deleteUserParser),
                               disableUserParser),
                            sendMessageParser),
                         pingParser),
                      addUserToGroupParser),
                   removeUserFromGroupParser),
                getUsersParser),
             getGroupsParser),
          getMessageHistoryParser),
       exitParser)

---------------------------------------------------------------------------
(* TaskProcessor::parseCommand *)

\* std::nullopt
NoCommand == [type |-> "nullopt"]

\* CommandOf without the test of the cursor against the length of the line
CommandOfPrefix(r, line) ==
    IF r.success THEN r.value ELSE NoCommand

\* the optional Command parseCommand returns for the parser outcome r
CommandOf(r, line) ==
    IF r.success /\ r.index = Len(line) THEN r.value ELSE NoCommand

parseCommand(line) == CommandOf(Run(commandParser, line, 0), line)

---------------------------------------------------------------------------
(* UserManager: every method maps the directory (users, groups) to the     *)
(* value it returns (ok) and the directory it leaves                       *)

\* a freshly constructed User (user.hpp)
NewUser(username) ==
    [username |-> username, enabled |-> TRUE, messages |-> <<>>, groups |-> {}]

\* an empty unordered_map
NoUsers == [u \in {} |-> NewUser(u)]

Dir(us, gs) == [users |-> us, groups |-> gs]

Ret(ok, us, gs) == [ok |-> ok, users |-> us, groups |-> gs]

\* reset without users.clear()
resetGroupsOnly(us, gs) == Dir(us, {})

reset(us, gs) == Dir(NoUsers, {})

userExists(us, username) == username \in DOMAIN us

isUserEnabled(us, username) == username \in DOMAIN us /\ us[username].enabled

\* createUser without the test for an existing user: the entry is replaced
createUserOverwrite(us, gs, username) ==
    Ret(TRUE,
        [u \in DOMAIN us \cup {username} |->
            IF u = username THEN NewUser(username) ELSE us[u]],
        gs)

createUser(us, gs, username) ==
    IF username \in DOMAIN us THEN Ret(FALSE, us, gs)
    ELSE Ret(TRUE,
             [u \in DOMAIN us \cup {username} |->
                 IF u = username THEN NewUser(username) ELSE us[u]],
             gs)

\* deleteUser answering true for a user that does not exist
deleteUserAbsentOk(us, gs, username) ==
    IF username \notin DOMAIN us THEN Ret(TRUE, us, gs)
    ELSE Ret(TRUE,
             [u \in DOMAIN us \ {username} |-> us[u]],
             gs \ us[username].groups)

deleteUser(us, gs, username) ==
    IF username \notin DOMAIN us THEN Ret(FALSE, us, gs)
    ELSE Ret(TRUE,
             [u \in DOMAIN us \ {username} |-> us[u]],
             gs \ us[username].groups)

\* disableUser switching the enabled flag over
disableUserToggle(us, gs, username) ==
    IF username \notin DOMAIN us THEN Ret(FALSE, us, gs)
    ELSE Ret(TRUE, [us EXCEPT ![username].enabled = ~@], gs)

disableUser(us, gs, username) ==
    IF username \notin DOMAIN us THEN Ret(FALSE, us, gs)
    ELSE Ret(TRUE, [us EXCEPT ![username].enabled = FALSE], gs)

\* sendMessage storing the message before it looks at the enabled flag
sendMessageStoreFirst(us, gs, username, message) ==
    IF username \notin DOMAIN us THEN Ret(FALSE, us, gs)
    ELSE Ret(us[username].enabled,
             [us EXCEPT ![username].messages = Append(@, message)],
             gs)

\* sendMessage with the message put in front of the earlier ones
sendMessageFront(us, gs, username, message) ==
    IF username \notin DOMAIN us \/ ~us[username].enabled THEN Ret(FALSE, us, gs)
    ELSE Ret(TRUE,
             [us EXCEPT ![username].messages = <<message>> \o @],
             gs)

sendMessage(us, gs, username, message) ==
    IF username \notin DOMAIN us \/ ~us[username].enabled THEN Ret(FALSE, us, gs)
    ELSE Ret(TRUE,
             [us EXCEPT ![username].messages = Append(@, message)],
             gs)

\* addUserToGroup inserting the group into the record of every user
addUserToGroupAll(us, gs, username, group) ==
    IF username \notin DOMAIN us THEN Ret(FALSE, us, gs)
    ELSE Ret(TRUE,
             [u \in DOMAIN us |-> [us[u] EXCEPT !.groups = @ \cup {group}]],
             gs \cup {group})

addUserToGroup(us, gs, username, group) ==
    IF username \notin DOMAIN us THEN Ret(FALSE, us, gs)
    ELSE Ret(TRUE,
             [us EXCEPT ![username].groups = @ \cup {group}],
             gs \cup {group})

removeUserFromGroup(us, gs, username, group) ==
    IF username \notin DOMAIN us THEN Ret(FALSE, us, gs)
    ELSE LET us2 == [us EXCEPT ![username].groups = @ \ {group}]
             groupEmpty == \A u \in DOMAIN us2 : group \notin us2[u].groups
         IN  Ret(TRUE, us2, IF groupEmpty THEN gs \ {group} ELSE gs)

\* the characters of the model in the order of their codes
Ascii == <<TAB, LF, VT, FF, CR, SP, QUOTE, HASH>> \o Digits \o
         <<"A", "B", "C", "D", "E", "F", "G", "H", "I", "J", "K", "L", "M",
           "N", "O", "P", "Q", "R", "S", "T", "U", "V", "W", "X", "Y", "Z",
           "\\", "_",
           "a", "b", "c", "d", "e", "f", "g", "h", "i", "j", "k", "l", "m",
           "n", "o", "p", "q", "r", "s", "t", "u", "v", "w", "x", "y", "z">>

CharCode(c) == CHOOSE k \in 1..Len(Ascii) : Ascii[k] = c

\* std::string operator< (lexicographic, by character code)
RECURSIVE StringLess(_, _)
StringLess(x, y) ==
    IF y = <<>> THEN FALSE
    ELSE IF x = <<>> THEN TRUE
    ELSE IF Head(x) = Head(y) THEN StringLess(Tail(x), Tail(y))
    ELSE CharCode(Head(x)) < CharCode(Head(y))

\* std::sort of a vector of distinct strings
RECURSIVE SortStrings(_)
SortStrings(S) ==
    IF S = {} THEN <<>>
    ELSE LET m == CHOOSE x \in S : \A y \in S \ {x} : StringLess(x, y)
         IN  <<m>> \o SortStrings(S \ {m})

\* the users in descending order
RECURSIVE SortStringsDown(_)
SortStringsDown(S) ==
    IF S = {} THEN <<>>
    ELSE LET m == CHOOSE x \in S : \A y \in S \ {x} : StringLess(y, x)
         IN  <<m>> \o SortStringsDown(S \ {m})

\* getUsers sorting with std::greater
getUsersDescending(us) == SortStringsDown(DOMAIN us)

getUsers(us) == SortStrings(DOMAIN us)

getGroups(gs) == SortStrings(gs)

getMessageHistory(us, username) ==
    IF username \notin DOMAIN us THEN <<>> ELSE us[username].messages

---------------------------------------------------------------------------
(* Command executors.  An executor maps a command and the directory to the *)
(* CommandResult (success, message, shouldExit) and the directory it       *)
(* leaves; thrown marks std::bad_variant_access leaving std::get.          *)

Res(success, message, shouldExit, d) ==
    [success |-> success, message |-> message, shouldExit |-> shouldExit,
     thrown |-> FALSE, users |-> d.users, groups |-> d.groups]

BadVariantAccess(us, gs) ==
    [success |-> FALSE, message |-> <<"bad_variant_access">>, shouldExit |-> FALSE,
     thrown |-> TRUE, users |-> us, groups |-> gs]

CreateUserExecutor(cmd, us, gs) ==
    IF cmd.type # "CreateUserCommand" THEN BadVariantAccess(us, gs)
    ELSE LET r == createUser(us, gs, cmd.username)
         IN  IF r.ok THEN Res(TRUE, <<"OK CREATE USER", cmd.username>>, FALSE, r)
             ELSE Res(FALSE, <<"FAIL CREATE USER", cmd.username,
                               "User already exists">>, FALSE, r)

DeleteUserExecutor(cmd, us, gs) ==
    IF cmd.type # "DeleteUserCommand" THEN BadVariantAccess(us, gs)
    ELSE LET r == deleteUser(us, gs, cmd.username)
         IN  IF r.ok THEN Res(TRUE, <<"OK DELETE USER", cmd.username>>, FALSE, r)
             ELSE Res(FALSE, <<"FAIL DELETE USER", cmd.username,
                               "User does not exist">>, FALSE, r)

DisableUserExecutor(cmd, us, gs) ==
    IF cmd.type # "DisableUserCommand" THEN BadVariantAccess(us, gs)
    ELSE LET r == disableUser(us, gs, cmd.username)
         IN  IF r.ok THEN Res(TRUE, <<"OK DISABLE USER", cmd.username>>, FALSE, r)
             ELSE Res(FALSE, <<"FAIL DISABLE USER", cmd.username,
                               "User does not exist">>, FALSE, r)

SendMessageExecutor(cmd, us, gs) ==
    IF cmd.type # "SendMessageCommand" THEN BadVariantAccess(us, gs)
    ELSE LET r == sendMessage(us, gs, cmd.username, cmd.message)
         IN  IF r.ok
             THEN Res(TRUE, <<"OK SEND MESSAGE", cmd.username, cmd.message>>, FALSE, r)
             ELSE Res(FALSE, <<"FAIL SEND MESSAGE", cmd.username, cmd.message,
                               "User does not exist">>, FALSE, r)

\* the loop `for (int i = 0; i < pingCmd.times; ++i)` of PingExecutor
\* the loop of PingExecutor with the test i <= times
RECURSIVE PingLoopInclusive(_, _, _, _)
PingLoopInclusive(i, times, username, us) ==
    IF i <= times
    THEN <<"Sent ping to", username>>
         \o (IF userExists(us, username) THEN <<username, "received a ping">> ELSE <<>>)
         \o PingLoopInclusive(i + 1, times, username, us)
    ELSE <<>>

RECURSIVE PingLoop(_, _, _, _)
PingLoop(i, times, username, us) ==
    IF i < times
    THEN <<"Sent ping to", username>>
         \o (IF userExists(us, username) THEN <<username, "received a ping">> ELSE <<>>)
         \o PingLoop(i + 1, times, username, us)
    ELSE <<>>

PingExecutor(cmd, us, gs) ==
    IF cmd.type # "PingCommand" THEN BadVariantAccess(us, gs)
    ELSE Res(TRUE,
             <<"OK Send ping to", cmd.username, cmd.times>>
                 \o PingLoop(0, cmd.times, cmd.username, us),
             FALSE, Dir(us, gs))

AddUserToGroupExecutor(cmd, us, gs) ==
    IF cmd.type # "AddUserToGroupCommand" THEN BadVariantAccess(us, gs)
    ELSE LET r == addUserToGroup(us, gs, cmd.username, cmd.group)
         IN  IF r.ok
             THEN Res(TRUE, <<"OK ADD USER", cmd.username, "TO GROUP", cmd.group>>,
                      FALSE, r)
             ELSE Res(FALSE, <<"FAIL ADD USER", cmd.username, "TO GROUP", cmd.group,
                               "User does not exist">>, FALSE, r)

RemoveUserFromGroupExecutor(cmd, us, gs) ==
    IF cmd.type # "RemoveUserFromGroupCommand" THEN BadVariantAccess(us, gs)
    ELSE LET r == removeUserFromGroup(us, gs, cmd.username, cmd.group)
         IN  IF r.ok
             THEN Res(TRUE, <<"OK REMOVE USER", cmd.username, "FROM GROUP", cmd.group>>,
                      FALSE, r)
             ELSE Res(FALSE, <<"FAIL REMOVE USER", cmd.username, "FROM GROUP",
                               cmd.group, "User does not exist">>, FALSE, r)

GetUsersExecutor(cmd, us, gs) ==
    Res(TRUE, <<"OK GET USERS", getUsers(us)>>, FALSE, Dir(us, gs))

GetGroupsExecutor(cmd, us, gs) ==
    Res(TRUE, <<"OK GET GROUPS", getGroups(gs)>>, FALSE, Dir(us, gs))

GetMessageHistoryExecutor(cmd, us, gs) ==
    IF cmd.type # "GetMessageHistoryCommand" THEN BadVariantAccess(us, gs)
    ELSE IF ~userExists(us, cmd.username)
    THEN Res(FALSE, <<"FAIL GET MESSAGE HISTORY", cmd.username,
                      "User does not exist">>, FALSE, Dir(us, gs))
    ELSE Res(TRUE, <<"OK GET MESSAGE HISTORY", cmd.username,
                     getMessageHistory(us, cmd.username)>>, FALSE, Dir(us, gs))

\* ExitExecutor leaving shouldExit at its default
ExitExecutorNoExit(cmd, us, gs) == Res(TRUE, <<"OK EXIT">>, FALSE, Dir(us, gs))

ExitExecutor(cmd, us, gs) == Res(TRUE, <<"OK EXIT">>, TRUE, Dir(us, gs))

\* the virtual call it->second->execute(command, userManager)
Execute(executor, cmd, us, gs) ==
    CASE executor = "CreateUserExecutor" -> CreateUserExecutor(cmd, us, gs)
      [] executor = "DeleteUserExecutor" -> DeleteUserExecutor(cmd, us, gs)
      [] executor = "DisableUserExecutor" -> DisableUserExecutor(cmd, us, gs)
      [] executor = "SendMessageExecutor" -> SendMessageExecutor(cmd, us, gs)
      [] executor = "PingExecutor" -> PingExecutor(cmd, us, gs)
      [] executor = "AddUserToGroupExecutor" -> AddUserToGroupExecutor(cmd, us, gs)
      [] executor = "RemoveUserFromGroupExecutor" ->
            RemoveUserFromGroupExecutor(cmd, us, gs)
      [] executor = "GetUsersExecutor" -> GetUsersExecutor(cmd, us, gs)
      [] executor = "GetGroupsExecutor" -> GetGroupsExecutor(cmd, us, gs)
      [] executor = "GetMessageHistoryExecutor" ->
            GetMessageHistoryExecutor(cmd, us, gs)
      [] executor = "ExitExecutor" -> ExitExecutor(cmd, us, gs)

---------------------------------------------------------------------------
(* CommandRegistry *)

\* the alternatives of the variant Command (command.hpp)
CommandTypes ==
    {"CreateUserCommand", "DeleteUserCommand", "DisableUserCommand",
     "SendMessageCommand", "PingCommand", "AddUserToGroupCommand",
     "RemoveUserFromGroupCommand", "GetUsersCommand", "GetGroupsCommand",
     "GetMessageHistoryCommand", "ExitCommand"}

\* an empty registry
NoExecutors == [T \in {} |-> ""]

\* executors[typeid(T)] = std::move(executor)
registerExecutor(ex, T, executor) ==
    [k \in DOMAIN ex \cup {T} |-> IF k = T THEN executor ELSE ex[k]]

\* execute answering a default-constructed success for an unregistered variant
executeUnknownOk(ex, cmd, us, gs) ==
    IF cmd.type \in DOMAIN ex THEN Execute(ex[cmd.type], cmd, us, gs)
    ELSE Res(TRUE, <<"Unknown command">>, FALSE, Dir(us, gs))

\* CommandRegistry::execute
execute(ex, cmd, us, gs) ==
    IF cmd.type \in DOMAIN ex THEN Execute(ex[cmd.type], cmd, us, gs)
    ELSE Res(FALSE, <<"Unknown command">>, FALSE, Dir(us, gs))

\* registerCommands without the registration of ExitCommand
registerCommandsNoExit(ex) ==
    LET r1 == registerExecutor(ex, "CreateUserCommand", "CreateUserExecutor")
        r2 == registerExecutor(r1, "DeleteUserCommand", "DeleteUserExecutor")
        r3 == registerExecutor(r2, "DisableUserCommand", "DisableUserExecutor")
        r4 == registerExecutor(r3, "SendMessageCommand", "SendMessageExecutor")
        r5 == registerExecutor(r4, "PingCommand", "PingExecutor")
        r6 == registerExecutor(r5, "AddUserToGroupCommand", "AddUserToGroupExecutor")
        r7 == registerExecutor(r6, "RemoveUserFromGroupCommand",
                               "RemoveUserFromGroupExecutor")
        r8 == registerExecutor(r7, "GetUsersCommand", "GetUsersExecutor")
        r9 == registerExecutor(r8, "GetGroupsCommand", "GetGroupsExecutor")
    IN  registerExecutor(r9, "GetMessageHistoryCommand", "GetMessageHistoryExecutor")

\* registerCommands with the executors of CreateUserCommand and
\* DeleteUserCommand exchanged
registerCommandsCrossed(ex) ==
    LET r1 == registerExecutor(ex, "CreateUserCommand", "DeleteUserExecutor")
        r2 == registerExecutor(r1, "DeleteUserCommand", "CreateUserExecutor")
        r3 == registerExecutor(r2, "DisableUserCommand", "DisableUserExecutor")
        r4 == registerExecutor(r3, "SendMessageCommand", "SendMessageExecutor")
        r5 == registerExecutor(r4, "PingCommand", "PingExecutor")
        r6 == registerExecutor(r5, "AddUserToGroupCommand", "AddUserToGroupExecutor")
        r7 == registerExecutor(r6, "RemoveUserFromGroupCommand",
                               "RemoveUserFromGroupExecutor")
        r8 == registerExecutor(r7, "GetUsersCommand", "GetUsersExecutor")
        r9 == registerExecutor(r8, "GetGroupsCommand", "GetGroupsExecutor")
        r10 == registerExecutor(r9, "GetMessageHistoryCommand",
                                "GetMessageHistoryExecutor")
    IN  registerExecutor(r10, "ExitCommand", "ExitExecutor")

\* TaskProcessor::registerCommands, applied to the registry ex
registerCommands(ex) ==
    LET r1 == registerExecutor(ex, "CreateUserCommand", "CreateUserExecutor")
        r2 == registerExecutor(r1, "DeleteUserCommand", "DeleteUserExecutor")
        r3 == registerExecutor(r2, "DisableUserCommand", "DisableUserExecutor")
        r4 == registerExecutor(r3, "SendMessageCommand", "SendMessageExecutor")
        r5 == registerExecutor(r4, "PingCommand", "PingExecutor")
        r6 == registerExecutor(r5, "AddUserToGroupCommand", "AddUserToGroupExecutor")
        r7 == registerExecutor(r6, "RemoveUserFromGroupCommand",
                               "RemoveUserFromGroupExecutor")
        r8 == registerExecutor(r7, "GetUsersCommand", "GetUsersExecutor")
        r9 == registerExecutor(r8, "GetGroupsCommand", "GetGroupsExecutor")
        r10 == registerExecutor(r9, "GetMessageHistoryCommand",
                                "GetMessageHistoryExecutor")
    IN  registerExecutor(r10, "ExitCommand", "ExitExecutor")

---------------------------------------------------------------------------
(* TaskProcessor::readTaskFile.  A file is the sequence of the lines       *)
(* std::getline delivers.                                                  *)

\* line.find('#'): the 0-based position of the first '#', Len(line) for npos
RECURSIVE FindHash(_, _)
FindHash(line, i) ==
    IF i < Len(line) /\ At(line, i) # HASH THEN FindHash(line, i + 1) ELSE i

\* the position of the first '#' that is not between two quotes
RECURSIVE FindHashOutside(_, _, _)
FindHashOutside(line, i, quoted) ==
    IF i >= Len(line) THEN i
    ELSE IF At(line, i) = HASH /\ ~quoted THEN i
    ELSE FindHashOutside(line, i + 1, IF At(line, i) = QUOTE THEN ~quoted ELSE quoted)

\* RemoveComment leaving a '#' of a quoted text in place
RemoveCommentUnquoted(line) == substr(line, 0, FindHashOutside(line, 0, FALSE))

RemoveComment(line) == substr(line, 0, FindHash(line, 0))

TrimChars == {SP, TAB, CR, LF}

\* line.erase(0, line.find_first_not_of(" \t\r\n"))
RECURSIVE TrimLeft(_)
TrimLeft(line) ==
    IF line # <<>> /\ Head(line) \in TrimChars THEN TrimLeft(Tail(line)) ELSE line

\* line.erase(line.find_last_not_of(" \t\r\n") + 1)
RECURSIVE TrimRight(_)
TrimRight(line) ==
    IF line # <<>> /\ line[Len(line)] \in TrimChars
    THEN TrimRight(SubSeq(line, 1, Len(line) - 1)) ELSE line

\* Normalize without the removal of the comment
NormalizeKeepComment(line) == TrimRight(TrimLeft(line))

Normalize(line) == TrimRight(TrimLeft(RemoveComment(line)))

RECURSIVE readTaskFile(_)
readTaskFile(file) ==
    IF file = <<>> THEN <<>>
    ELSE LET line == Normalize(Head(file))
         IN  (IF line # <<>> THEN <<line>> ELSE <<>>) \o readTaskFile(Tail(file))

---------------------------------------------------------------------------
(* TaskProcessor: processTasks calling processTask on every file           *)

NoOutcome == makeError("", 0)

NoResult == [success |-> TRUE, message |-> <<>>, shouldExit |-> FALSE]

\* AfterDispatch without the test of result.success
AfterDispatchIgnoreFailure(r) ==
    IF r.shouldExit THEN "break" ELSE "continue"

\* AfterDispatch without the test of result.shouldExit
AfterDispatchNoBreak(r) ==
    IF ~r.success THEN "return" ELSE "continue"

\* the tests of result leaving the loop by break on a failure as well
AfterDispatchBreakOnFailure(r) ==
    IF r.shouldExit \/ ~r.success THEN "break" ELSE "continue"

\* what the loop body does after a dispatch returned r
AfterDispatch(r) ==
    IF r.shouldExit THEN "break"
    ELSE IF ~r.success THEN "return"
    ELSE "continue"

\* processTask is left: processTasks goes on with the next file, if any
Returned ==
    /\ taskIdx' = taskIdx + 1
    /\ pc' = IF taskIdx < numTasks THEN "call" ELSE "done"

SetStatus(s) == status' = [status EXCEPT ![taskIdx] = s]

\* history: no user created
NoneSent == [u \in {} |-> <<>>]

\* history: sent after the dispatch of the command c returned r
Succeeded(h, c, r) ==
    IF r.thrown \/ ~r.success THEN h
    ELSE CASE c.type = "CreateUserCommand" ->
                [u \in DOMAIN h \cup {c.username} |->
                    IF u = c.username THEN <<>> ELSE h[u]]
           [] c.type = "DeleteUserCommand" ->
                [u \in DOMAIN h \ {c.username} |-> h[u]]
           [] c.type = "SendMessageCommand" /\ c.username \in DOMAIN h ->
                [h EXCEPT ![c.username] = Append(@, c.message)]
           [] OTHER -> h

\* history: one entry per parse and per dispatch of the current task
Event(kind, ok, exit, thrown, us, gs) ==
    [kind |-> kind, idx |-> lineIdx, ok |-> ok, exit |-> exit, thrown |-> thrown,
     users |-> us, groups |-> gs]

\* the TaskProcessor as constructed, and processTasks called with n filenames
InitWith(n) ==
    /\ users = NoUsers
    /\ groups = {}
    /\ executors = registerCommands(NoExecutors)
    /\ numTasks = n
    /\ taskIdx = 1
    /\ pc = "call"
    /\ lines = <<>>
    /\ lineIdx = 0
    /\ parsed = NoOutcome
    /\ cmdOpt = NoCommand
    /\ result = NoResult
    /\ log = <<>>
    /\ output = <<>>
    /\ status = <<>>
    /\ dirtyAtCall = FALSE
    /\ opened = <<>>
    /\ fileLines = <<>>
    /\ sent = NoneSent

Init == InitWith(NumTasks)

\* processTask without the check of the file before the try block: the
\* exception of readTaskFile is caught and the task reported as stopped
ProcessTaskCannotOpenCaught ==
    /\ pc = "call"
    /\ opened' = Append(opened, FALSE)
    /\ fileLines' = <<>>
    /\ sent' = NoneSent
    /\ dirtyAtCall' = (DOMAIN users # {} \/ groups # {})
    /\ users' = reset(users, groups).users
    /\ groups' = reset(users, groups).groups
    /\ output' = <<<<"Error processing task">>, <<"stopped">>>>
    /\ status' = Append(status, "stopped")
    /\ log' = <<>>
    /\ lines' = <<>>
    /\ lineIdx' = 0
    /\ parsed' = NoOutcome
    /\ cmdOpt' = NoCommand
    /\ result' = NoResult
    /\ Returned
    /\ UNCHANGED <<executors, numTasks>>

\* processTask on a file that cannot be opened: std::runtime_error is thrown
\* before anything else happens; neither processTasks nor main catches it
ProcessTaskCannotOpen ==
    /\ pc = "call"
    /\ opened' = Append(opened, FALSE)
    /\ status' = Append(status, "threw")
    /\ pc' = "terminated"
    /\ UNCHANGED <<users, groups, executors, numTasks, taskIdx, lines, lineIdx,
                   parsed, cmdOpt, result, log, output, dirtyAtCall, fileLines,
                   sent>>

\* processTask on a file that opens: the directory is reset, the header printed
ProcessTaskOpen ==
    /\ pc = "call"
    /\ opened' = Append(opened, TRUE)
    /\ fileLines' = <<>>
    /\ sent' = NoneSent
    /\ dirtyAtCall' = (DOMAIN users # {} \/ groups # {})
    /\ users' = reset(users, groups).users
    /\ groups' = reset(users, groups).groups
    /\ output' = <<>>
    /\ status' = Append(status, "processing")
    /\ log' = <<>>
    /\ lines' = <<>>
    /\ lineIdx' = 0
    /\ parsed' = NoOutcome
    /\ cmdOpt' = NoCommand
    /\ result' = NoResult
    /\ pc' = "read"
    /\ UNCHANGED <<executors, numTasks, taskIdx>>

\* auto lines = readTaskFile(filename), the file holding one of Files
ReadTaskFile(Files) ==
    /\ pc = "read"
    /\ \E file \in Files :
          /\ fileLines' = file
          /\ lines' = readTaskFile(file)
    /\ lineIdx' = 1
    /\ pc' = "loop"
    /\ UNCHANGED <<users, groups, executors, numTasks, taskIdx, parsed, cmdOpt,
                   result, log, output, status, dirtyAtCall, opened, sent>>

\* auto cmdOpt = parseCommand(line), and the test of cmdOpt, for the outcome
\* r of the top-level parser on the line
ParseStep(r) ==
    /\ pc = "loop"
    /\ lineIdx <= Len(lines)
    /\ LET line == lines[lineIdx]
           c == CommandOf(r, line)
       IN  /\ parsed' = r
           /\ IF r.thrown
              THEN /\ cmdOpt' = NoCommand
                   /\ log' = Append(log, Event("parse", FALSE, FALSE, TRUE, users, groups))
                   /\ output' = output \o <<<<"Error processing task">>, <<"stopped">>>>
                   /\ SetStatus("stopped")
                   /\ Returned
              ELSE /\ cmdOpt' = c
                   /\ log' = Append(log, Event("parse", c # NoCommand, FALSE, FALSE,
                                               users, groups))
                   /\ IF c = NoCommand
                      THEN /\ output' = output \o <<<<"Invalid command", line>>,
                                                    <<"stopped">>>>
                           /\ SetStatus("stopped")
                           /\ Returned
                      ELSE /\ pc' = "execute"
                           /\ UNCHANGED <<output, status, taskIdx>>
    /\ UNCHANGED <<users, groups, executors, numTasks, lines, lineIdx, result,
                   dirtyAtCall, opened, fileLines, sent>>

\* the loop body up to the dispatch, on the current line
ParseLine ==
    /\ pc = "loop"
    /\ lineIdx <= Len(lines)
    /\ ParseStep(Run(commandParser, lines[lineIdx], 0))

\* auto result = registry.execute(*cmdOpt, userManager), and the tests of result
Dispatch ==
    /\ pc = "execute"
    /\ LET r == execute(executors, cmdOpt, users, groups)
       IN  /\ users' = r.users
           /\ groups' = r.groups
           /\ sent' = Succeeded(sent, cmdOpt, r)
           /\ log' = Append(log, Event("dispatch", r.success, r.shouldExit, r.thrown,
                                       r.users, r.groups))
           /\ IF r.thrown
              THEN /\ output' = output \o <<<<"Error processing task">>, <<"stopped">>>>
                   /\ SetStatus("stopped")
                   /\ Returned
                   /\ UNCHANGED <<result, lineIdx>>
              ELSE /\ result' = [success |-> r.success, message |-> r.message,
                                 shouldExit |-> r.shouldExit]
                   /\ CASE AfterDispatch(r) = "break" ->
                             /\ output' = Append(output, <<"message", r.message>>)
                             /\ pc' = "after"
                             /\ UNCHANGED <<status, taskIdx, lineIdx>>
                        [] AfterDispatch(r) = "return" ->
                             /\ output' = output \o <<<<"message", r.message>>,
                                                      <<"stopped">>>>
                             /\ SetStatus("stopped")
                             /\ Returned
                             /\ UNCHANGED lineIdx
                        [] AfterDispatch(r) = "continue" ->
                             /\ output' = Append(output, <<"message", r.message>>)
                             /\ lineIdx' = lineIdx + 1
                             /\ pc' = "loop"
                             /\ UNCHANGED <<status, taskIdx>>
    /\ UNCHANGED <<executors, numTasks, lines, parsed, cmdOpt, dirtyAtCall, opened,
                   fileLines>>

\* the statement after the loop: "[Task ... completed successfully]"
TaskCompleted ==
    /\ pc = "after" \/ (pc = "loop" /\ lineIdx > Len(lines))
    /\ output' = Append(output, <<"completed">>)
    /\ SetStatus("completed")
    /\ Returned
    /\ UNCHANGED <<users, groups, executors, numTasks, lines, lineIdx, parsed,
                   cmdOpt, result, log, dirtyAtCall, opened, fileLines, sent>>

---------------------------------------------------------------------------
(* Inputs: the lines task files are made of *)

\* the tokens of a line, joined by the separators seps[1], seps[2], ...
RECURSIVE Join(_, _)
Join(tokens, seps) ==
    IF Len(tokens) = 1 THEN tokens[1]
    ELSE tokens[1] \o seps[1] \o Join(Tail(tokens), Tail(seps))

\* the tokens joined by single spaces
Words(tokens) == Join(tokens, [k \in 1..(Len(tokens) - 1) |-> <<SP>>])

Quoted(text) == <<QUOTE>> \o text \o <<QUOTE>>

\* the lines of the scripts of Spec
ScriptLines ==
    { Words(<<kwCREATE, kwUSER, <<"a">>>>),
      Words(<<kwCREATE, kwUSER, <<"b">>>>),
      Words(<<kwDELETE, kwUSER, <<"a">>>>),
      Words(<<kwDISABLE, kwUSER, <<"a">>>>),
      Words(<<kwSEND, kwMESSAGE, <<"a">>, Quoted(<<"h", "i">>)>>),
      Words(<<kwPING, <<"a">>, <<"2">>>>),
      Words(<<kwADD, kwUSER, <<"a">>, kwTO, kwGROUP, <<"g">>>>),
      Words(<<kwREMOVE, kwUSER, <<"a">>, kwFROM, kwGROUP, <<"g">>>>),
      Words(<<kwGET, kwUSERS>>),
      Words(<<kwGET, kwGROUPS>>),
      Words(<<kwGET, kwMESSAGE, kwHISTORY, <<"a">>>>),
      kwEXIT,
      \* trailing input after a complete command
      Words(<<kwGET, kwUSERS, <<"x">>>>),
      \* a count that does not fit an int
      Words(<<kwPING, <<"a">>, <<"2", "1", "4", "7", "4", "8", "3", "6", "4", "8">>>>),
      \* a comment line, and a command with leading blanks and a comment
      <<HASH, SP, "c">>,
      <<SP, TAB>> \o kwEXIT \o <<SP, HASH, "c">> }

\* the sequences over S of length at most n
RECURSIVE SeqsUpTo(_, _)
SeqsUpTo(S, n) ==
    IF n = 0 THEN {<<>>}
    ELSE LET shorter == SeqsUpTo(S, n - 1)
         IN  shorter \cup {Append(f, l) : f \in {g \in shorter : Len(g) = n - 1}, l \in S}

\* the script CREATE USER a / CREATE USER a / EXIT
EndToEndScript ==
    << Words(<<kwCREATE, kwUSER, <<"a">>>>),
       Words(<<kwCREATE, kwUSER, <<"a">>>>),
       kwEXIT >>

\* the scripts that go on, for at most two lines, after the user a was
\* created, sent a message and disabled
DisabledPrefix ==
    << Words(<<kwCREATE, kwUSER, <<"a">>>>),
       Words(<<kwSEND, kwMESSAGE, <<"a">>, Quoted(<<"h", "i">>)>>),
       Words(<<kwDISABLE, kwUSER, <<"a">>>>) >>

DisabledScripts ==
    {DisabledPrefix \o <<l>> : l \in ScriptLines}
    \cup {DisabledPrefix \o <<l, m>> : l \in ScriptLines, m \in ScriptLines}

ScriptFiles ==
    SeqsUpTo(ScriptLines, MaxLines) \cup {EndToEndScript} \cup DisabledScripts

Next ==
    \/ ProcessTaskCannotOpen
    \/ ProcessTaskOpen
    \/ ReadTaskFile(ScriptFiles)
    \/ ParseLine
    \/ Dispatch
    \/ TaskCompleted

Spec == Init /\ [][Next]_vars

---------------------------------------------------------------------------
(* Inputs of ParseSpec: one task whose file holds one line, or two for the  *)
(* commands on groups.  The lines are                                      *)
(* the commands of Shapes written with every choice of separators, and     *)
(* every line one edit away from a command written with single spaces.     *)

Shape(tokens, cmd) == [tokens |-> tokens, cmd |-> cmd]

\* commands, as their tokens and the Command they denote; the count of a
\* PING is kept as its digits
Shapes ==
    { Shape(<<kwCREATE, kwUSER, <<"a">>>>,
            [type |-> "CreateUserCommand", username |-> <<"a">>]),
      Shape(<<kwCREATE, kwUSER, <<"b", "_", "1">>>>,
            [type |-> "CreateUserCommand", username |-> <<"b", "_", "1">>]),
      Shape(<<kwDELETE, kwUSER, <<"a">>>>,
            [type |-> "DeleteUserCommand", username |-> <<"a">>]),
      Shape(<<kwDISABLE, kwUSER, <<"a">>>>,
            [type |-> "DisableUserCommand", username |-> <<"a">>]),
      Shape(<<kwSEND, kwMESSAGE, <<"a">>, Quoted(<<"h", "i">>)>>,
            [type |-> "SendMessageCommand", username |-> <<"a">>,
             message |-> <<"h", "i">>]),
      Shape(<<kwSEND, kwMESSAGE, <<"a">>, Quoted(<<>>)>>,
            [type |-> "SendMessageCommand", username |-> <<"a">>, message |-> <<>>]),
      Shape(<<kwPING, <<"a">>, <<"2">>>>,
            [type |-> "PingCommand", username |-> <<"a">>, digits |-> <<"2">>]),
      Shape(<<kwPING, <<"a">>, <<"0", "3">>>>,
            [type |-> "PingCommand", username |-> <<"a">>, digits |-> <<"0", "3">>]),
      Shape(<<kwADD, kwUSER, <<"a">>, kwTO, kwGROUP, <<"g">>>>,
            [type |-> "AddUserToGroupCommand", username |-> <<"a">>,
             group |-> <<"g">>]),
      Shape(<<kwREMOVE, kwUSER, <<"a">>, kwFROM, kwGROUP, <<"g">>>>,
            [type |-> "RemoveUserFromGroupCommand", username |-> <<"a">>,
             group |-> <<"g">>]),
      Shape(<<kwGET, kwUSERS>>, [type |-> "GetUsersCommand"]),
      Shape(<<kwGET, kwGROUPS>>, [type |-> "GetGroupsCommand"]),
      Shape(<<kwGET, kwMESSAGE, kwHISTORY, <<"a">>>>,
            [type |-> "GetMessageHistoryCommand", username |-> <<"a">>]),
      Shape(<<kwEXIT>>, [type |-> "ExitCommand"]) }

\* a PING whose count is INT_MAX + 1
BigPing ==
    Shape(<<kwPING, <<"a">>, <<"2", "1", "4", "7", "4", "8", "3", "6", "4", "8">>>>,
          [type |-> "PingCommand", username |-> <<"a">>,
           digits |-> <<"2", "1", "4", "7", "4", "8", "3", "6", "4", "8">>])

\* the separators written between two tokens
Seps == {<<SP>>, <<TAB>>, <<SP, SP>>}

\* the lines that write the shape sh, each with the command it denotes
Renderings(sh) ==
    { [line |-> Join(sh.tokens, seps), cmd |-> sh.cmd] :
        seps \in [1..(Len(sh.tokens) - 1) -> Seps] }

ValidLines == UNION {Renderings(sh) : sh \in Shapes \cup {BigPing}}

\* the characters an edit writes
EditChars == {SP, TAB, CR, HASH, QUOTE, "1", "_", "x"}

\* the lower-case letter of an upper-case letter
ToLower(c) ==
    IF c \in Upper THEN Ascii[CharCode(c) + 28] ELSE c

Edits(l) ==
    {SubSeq(l, 1, p - 1) \o SubSeq(l, p + 1, Len(l)) : p \in 1..Len(l)}
    \cup {[l EXCEPT ![p] = c] : p \in 1..Len(l), c \in EditChars}
    \cup {[l EXCEPT ![p] = ToLower(l[p])] : p \in 1..Len(l)}
    \cup {SubSeq(l, 1, p) \o <<c>> \o SubSeq(l, p + 1, Len(l)) :
             p \in 0..Len(l), c \in EditChars}
    \cup {l \o <<SP, "e", "x", "t", "r", "a">>,
          [k \in 1..Len(l) |-> ToLower(l[k])]}

TestLines ==
    {v.line : v \in ValidLines}
    \cup UNION {Edits(Words(sh.tokens)) : sh \in Shapes}

\* PING lines whose count is signed, missing or not a number
BadCountLines ==
    { Words(<<kwPING, <<"a">>, <<"-", "1">>>>),
      Words(<<kwPING, <<"a">>, <<"+", "1">>>>),
      Words(<<kwPING, <<"a">>, <<"-">>>>),
      Words(<<kwPING, <<"a">>, <<"x">>>>),
      Words(<<kwPING, <<"a">>, <<"1", "-", "1">>>>),
      Words(<<kwPING, <<"a">>>>) }

\* the keywords of the grammar
AllKeywords ==
    {kwCREATE, kwDELETE, kwDISABLE, kwUSER, kwSEND, kwMESSAGE, kwPING, kwADD,
     kwREMOVE, kwTO, kwFROM, kwGROUP, kwGET, kwUSERS, kwGROUPS, kwHISTORY, kwEXIT}

\* the positions of the keywords in a list of tokens
KeywordTokens(tokens) == {k \in 1..Len(tokens) : tokens[k] \in AllKeywords}

\* the word in lower case, and with all but its first letter in lower case
LowerCase(w) == [p \in 1..Len(w) |-> ToLower(w[p])]

TitleCase(w) == [p \in 1..Len(w) |-> IF p = 1 THEN w[p] ELSE ToLower(w[p])]

\* the lines that differ from the command only by the letter case of keywords
CaseVariants(tokens) ==
    LET K == KeywordTokens(tokens)
    IN  UNION { {Words([tokens EXCEPT ![k] = [@ EXCEPT ![p] = ToLower(@)]]) :
                    p \in 1..Len(tokens[k])} : k \in K }
        \cup {Words([tokens EXCEPT ![k] = LowerCase(@)]) : k \in K}
        \cup {Words([tokens EXCEPT ![k] = TitleCase(@)]) : k \in K}
        \cup {Words([k \in 1..Len(tokens) |->
                        IF k \in K THEN LowerCase(tokens[k]) ELSE tokens[k]]),
              Words([k \in 1..Len(tokens) |->
                        IF k \in K THEN TitleCase(tokens[k]) ELSE tokens[k]])}

\* the lines in which one keyword lost a letter or has a wrong letter
Misspellings(tokens) ==
    LET K == KeywordTokens(tokens)
    IN  UNION { {Words([tokens EXCEPT ![k] =
                           SubSeq(@, 1, p - 1) \o SubSeq(@, p + 1, Len(@))]) :
                    p \in 1..Len(tokens[k])} : k \in K }
        \cup UNION { {Words([tokens EXCEPT ![k] = [@ EXCEPT ![p] = "X"]]) :
                        p \in {q \in 1..Len(tokens[k]) : tokens[k][q] # "X"}} : k \in K }

\* the lines in which two keywords that follow each other are not separated
Unseparated(tokens) ==
    {Join(tokens, [j \in 1..(Len(tokens) - 1) |-> IF j = k THEN <<>> ELSE <<SP>>]) :
        k \in {j \in 1..(Len(tokens) - 1) :
                  j \in KeywordTokens(tokens) /\ (j + 1) \in KeywordTokens(tokens)}}

KeywordLines ==
    UNION {CaseVariants(sh.tokens) \cup Misspellings(sh.tokens)
           \cup Unseparated(sh.tokens) : sh \in Shapes}

\* the commands written with one separator that is neither space nor tab
OddSeparators == {<<CR>>, <<VT>>, <<FF>>, <<SP, CR>>, <<FF, TAB>>}

OddlySeparated(tokens) ==
    {Join(tokens, [j \in 1..(Len(tokens) - 1) |-> IF j = k THEN sep ELSE <<SP>>]) :
        k \in 1..(Len(tokens) - 1), sep \in OddSeparators}

SeparatorLines ==
    UNION {OddlySeparated(sh.tokens) : sh \in {t \in Shapes : Len(t.tokens) > 1}}

\* CREATE USER lines whose name starts with a digit or an underscore
BadNameLines ==
    { Words(<<kwCREATE, kwUSER, <<"1", "b", "o", "b">>>>),
      Words(<<kwCREATE, kwUSER, <<"_", "x">>>>) }

\* files of two lines: a user is created and then added to a group
GroupFiles ==
    { <<Words(<<kwCREATE, kwUSER, <<"a">>>>),
        Words(<<kwADD, kwUSER, <<"a">>, kwTO, kwGROUP, <<"g">>>>)>>,
      <<Words(<<kwCREATE, kwUSER, <<"a", "1">>>>),
        Words(<<kwADD, kwUSER, <<"a", "1">>, kwTO, kwGROUP, <<"g", "_", "2">>>>)>>,
      <<Words(<<kwCREATE, kwUSER, <<"a">>>>),
        Words(<<kwADD, kwUSER, <<"a">>, kwTO, kwGROUP, <<"2", "g">>>>)>>,
      <<Words(<<kwCREATE, kwUSER, <<"a">>>>),
        Words(<<kwADD, kwUSER, <<"a">>, kwTO, kwGROUP, <<"_", "g">>>>)>> }

\* SEND MESSAGE lines whose text has a quote written after a backslash
EscapedQuoteLines ==
    { Words(<<kwSEND, kwMESSAGE, <<"a">>, Quoted(<<"h", BACKSLASH, QUOTE, "i">>)>>),
      Words(<<kwSEND, kwMESSAGE, <<"a">>, Quoted(<<BACKSLASH, QUOTE>>)>>),
      Words(<<kwSEND, kwMESSAGE, <<"a">>, Quoted(<<"h", BACKSLASH>>)>>),
      Words(<<kwSEND, kwMESSAGE, <<"a">>, Quoted(<<"h", BACKSLASH, "n", SP, "i">>)>>) }

ParseFiles ==
    {<<l>> : l \in TestLines \cup BadCountLines \cup KeywordLines
                  \cup SeparatorLines \cup BadNameLines \cup EscapedQuoteLines}
    \cup GroupFiles

InitParse == InitWith(1)

NextParse ==
    \/ ProcessTaskCannotOpen
    \/ ProcessTaskOpen
    \/ ReadTaskFile(ParseFiles)
    \/ ParseLine
    \/ Dispatch
    \/ TaskCompleted

ParseSpec == InitParse /\ [][NextParse]_vars

---------------------------------------------------------------------------
(* ReaderSpec: one task whose file holds raw lines: commands, comments,    *)
(* blank lines, and commands between whitespace and before comments.       *)

ReaderLines ==
    { Words(<<kwCREATE, kwUSER, <<"a">>>>),
      kwEXIT,
      Words(<<kwGET, kwUSERS, <<"x">>>>),
      <<>>,
      <<TAB, SP, CR>>,
      <<HASH, SP, "c">>,
      <<SP, TAB, HASH>> \o kwEXIT,
      <<SP, TAB>> \o kwEXIT \o <<SP, HASH, "c">>,
      Words(<<kwGET, kwGROUPS>>) \o <<SP, CR>>,
      <<CR>> \o Words(<<kwCREATE, kwUSER, <<"b">>>>) \o <<HASH, "c", HASH, SP>>,
      Words(<<kwSEND, kwMESSAGE, <<"a">>, Quoted(<<"h", HASH, "i">>)>>),
      Words(<<kwSEND, kwMESSAGE, <<"a">>, Quoted(<<HASH>>)>>),
      Words(<<kwSEND, kwMESSAGE, <<"a">>, Quoted(<<"h", "i">>)>>),
      Words(<<kwSEND, kwMESSAGE, <<"a">>, Quoted(<<"y", "o">>)>>)
          \o <<SP, HASH, QUOTE, "x", HASH, QUOTE>>,
      <<FF>> \o kwEXIT }

ReaderFiles == SeqsUpTo(ReaderLines, MaxLines)

InitReader == InitWith(1)

NextReader ==
    \/ ProcessTaskCannotOpen
    \/ ProcessTaskOpen
    \/ ReadTaskFile(ReaderFiles)
    \/ ParseLine
    \/ Dispatch
    \/ TaskCompleted

ReaderSpec == InitReader /\ [][NextReader]_vars

---------------------------------------------------------------------------
(* TerminationSpec: one task, run to its end.  processTasks runs on one    *)
(* thread, so a step that can be taken is taken.                           *)

\* the lines of the files: a command that succeeds and fails when repeated,
\* one that succeeds, one that fails on an empty directory, EXIT, a line
\* with trailing input, a comment, a count that does not fit an int
TerminationLines ==
    { Words(<<kwCREATE, kwUSER, <<"a">>>>),
      Words(<<kwGET, kwUSERS>>),
      Words(<<kwDELETE, kwUSER, <<"a">>>>),
      kwEXIT,
      Words(<<kwGET, kwUSERS, <<"x">>>>),
      <<HASH, SP, "c">>,
      Words(<<kwPING, <<"a">>, <<"2", "1", "4", "7", "4", "8", "3", "6", "4", "8">>>>) }

TerminationFiles == SeqsUpTo(TerminationLines, MaxLines)

\* the lines readTaskFile makes of them, and the outcome of the top-level
\* parser on each
TerminationRead ==
    {readTaskFile(<<l>>)[1] : l \in {x \in TerminationLines : readTaskFile(<<x>>) # <<>>}}

TerminationOutcomes == [line \in TerminationRead |-> Run(commandParser, line, 0)]

InitTermination == InitWith(1)

\* ParseLine, the outcome of the parser taken from TerminationOutcomes
ParseReadLine ==
    /\ pc = "loop"
    /\ lineIdx <= Len(lines)
    /\ ParseStep(TerminationOutcomes[lines[lineIdx]])

NextTermination ==
    \/ ProcessTaskCannotOpen
    \/ ProcessTaskOpen
    \/ ReadTaskFile(TerminationFiles)
    \/ ParseReadLine
    \/ Dispatch
    \/ TaskCompleted

TerminationSpec ==
    InitTermination /\ [][NextTermination]_vars /\ WF_vars(NextTermination)

---------------------------------------------------------------------------
(* RegistrySpec: a CommandRegistry and a UserManager used without the task *)
(* loop.  Executors are registered, then lines are parsed and dispatched   *)
(* one by one against the same directory, whatever their results.          *)

\* the lines dispatched
RegistryLines ==
    { Words(<<kwCREATE, kwUSER, <<"a">>>>),
      Words(<<kwCREATE, kwUSER, <<"b">>>>),
      Words(<<kwCREATE, kwUSER, <<"B", "_", "2">>>>),
      Words(<<kwDELETE, kwUSER, <<"a">>>>),
      Words(<<kwDISABLE, kwUSER, <<"a">>>>),
      Words(<<kwSEND, kwMESSAGE, <<"a">>, Quoted(<<"h", "i">>)>>),
      Words(<<kwSEND, kwMESSAGE, <<"a">>, Quoted(<<"y", SP, "o">>)>>),
      Words(<<kwPING, <<"a">>, <<"0">>>>),
      Words(<<kwPING, <<"a">>, <<"2">>>>),
      Words(<<kwADD, kwUSER, <<"a">>, kwTO, kwGROUP, <<"g">>>>),
      Words(<<kwADD, kwUSER, <<"b">>, kwTO, kwGROUP, <<"g">>>>),
      Words(<<kwREMOVE, kwUSER, <<"a">>, kwFROM, kwGROUP, <<"g">>>>),
      Words(<<kwGET, kwUSERS>>),
      Words(<<kwGET, kwGROUPS>>),
      Words(<<kwGET, kwMESSAGE, kwHISTORY, <<"a">>>>),
      kwEXIT,
      \* a misspelled keyword
      <<"C", "R", "E", "A", "T", SP>> \o kwUSER \o <<SP, "a">> }

\* the outcome of the top-level parser on each of these lines, and what
\* parseCommand makes of it
RegistryOutcomes == [line \in RegistryLines |-> Run(commandParser, line, 0)]

RegistryCommands ==
    [line \in RegistryLines |-> CommandOf(RegistryOutcomes[line], line)]

\* the registrations made one at a time
RegisteredTypes == {"CreateUserCommand", "ExitCommand"}

RegisteredExecutors == {"CreateUserExecutor", "ExitExecutor"}

\* a CommandRegistry and a UserManager as constructed
InitRegistry ==
    /\ users = NoUsers
    /\ groups = {}
    /\ executors = NoExecutors
    /\ numTasks = 0
    /\ taskIdx = 1
    /\ pc = "registry"
    /\ lines = <<>>
    /\ lineIdx = 1
    /\ parsed = NoOutcome
    /\ cmdOpt = NoCommand
    /\ result = NoResult
    /\ log = <<>>
    /\ output = <<>>
    /\ status = <<>>
    /\ dirtyAtCall = FALSE
    /\ opened = <<>>
    /\ fileLines = <<>>
    /\ sent = NoneSent

\* the eleven registrations of TaskProcessor::registerCommands
RegisterCommands ==
    /\ pc = "registry"
    /\ executors' = registerCommands(executors)
    /\ UNCHANGED <<users, groups, numTasks, taskIdx, pc, lines, lineIdx, parsed,
                   cmdOpt, result, log, output, status, dirtyAtCall, opened,
                   fileLines, sent>>

\* registry.registerExecutor<T>(std::make_unique<E>())
RegisterExecutor ==
    /\ pc = "registry"
    /\ \E T \in RegisteredTypes, E \in RegisteredExecutors :
          executors' = registerExecutor(executors, T, E)
    /\ UNCHANGED <<users, groups, numTasks, taskIdx, pc, lines, lineIdx, parsed,
                   cmdOpt, result, log, output, status, dirtyAtCall, opened,
                   fileLines, sent>>

\* the messages of the user are fewer than MaxMessages
RoomForMessage(c) ==
    (c.type = "SendMessageCommand" /\ c.username \in DOMAIN users) =>
        Len(users[c.username].messages) < MaxMessages

\* parseCommand(line), then registry.execute(*cmdOpt, userManager) when the
\* line is a command
ExecuteLine ==
    /\ pc \in {"registry", "serving"}
    /\ \E line \in RegistryLines :
          LET p == RegistryOutcomes[line]
              c == RegistryCommands[line]
              r == execute(executors, c, users, groups)
          IN  /\ RoomForMessage(c)
              /\ lines' = <<line>>
              /\ parsed' = p
              /\ cmdOpt' = c
              /\ IF c = NoCommand
                 THEN /\ log' = <<Event("parse", FALSE, FALSE, p.thrown, users, groups)>>
                      /\ UNCHANGED <<users, groups, result, sent>>
                 ELSE /\ log' = <<Event("parse", TRUE, FALSE, FALSE, users, groups),
                                  Event("dispatch", r.success, r.shouldExit, r.thrown,
                                        r.users, r.groups)>>
                      /\ users' = r.users
                      /\ groups' = r.groups
                      /\ sent' = Succeeded(sent, c, r)
                      /\ result' = IF r.thrown THEN result
                                   ELSE [success |-> r.success, message |-> r.message,
                                         shouldExit |-> r.shouldExit]
    /\ pc' = "serving"
    /\ UNCHANGED <<executors, numTasks, taskIdx, lineIdx, output, status,
                   dirtyAtCall, opened, fileLines>>

\* userManager.reset()
ResetDirectory ==
    /\ pc = "serving"
    /\ users' = reset(users, groups).users
    /\ groups' = reset(users, groups).groups
    /\ sent' = NoneSent
    /\ log' = <<>>
    /\ UNCHANGED <<executors, numTasks, taskIdx, pc, lines, lineIdx, parsed, cmdOpt,
                   result, output, status, dirtyAtCall, opened, fileLines>>

NextRegistry ==
    \/ RegisterCommands
    \/ RegisterExecutor
    \/ ExecuteLine
    \/ ResetDirectory

RegistrySpec == InitRegistry /\ [][NextRegistry]_vars

---------------------------------------------------------------------------
(* Properties *)

\* the last parse or dispatch of the current task
Last == log[Len(log)]

\* the line the last parse or dispatch was about
LastLine == lines[Last.idx]

JustParsed == log # <<>> /\ Last.kind = "parse" /\ ~Last.thrown

JustDispatched == log # <<>> /\ Last.kind = "dispatch" /\ ~Last.thrown

\* the task log, lines and output belong to: the last one whose file opened
LogTask ==
    CHOOSE t \in 1..Len(opened) :
        opened[t] /\ \A u \in (t + 1)..Len(opened) : ~opened[u]

\* the status of that task
CurStatus == status[LogTask]

Printed(item) == \E k \in 1..Len(output) : output[k] = item

PrintedInvalid(line) ==
    \E k \in 1..Len(output) :
        /\ output[k][1] = "Invalid command"
        /\ output[k][2] = line

\* the parser p succeeds on the line and consumes all of it
FullMatch(p, line) ==
    LET r == Run(p, line, 0) IN r.success /\ r.index = Len(line)

\* C1: parseCommand yields a Command only if the top-level parser succeeds
\* with its cursor at the end of the line; a line on which the parser
\* succeeds with a smaller cursor is rejected as invalid, and no line is
\* dispatched unless the parser consumed all of it.
C1_FullConsumption ==
    /\ JustParsed =>
          /\ cmdOpt # NoCommand => parsed.success /\ parsed.index = Len(LastLine)
          /\ parsed.success /\ parsed.index < Len(LastLine) =>
                /\ cmdOpt = NoCommand
                /\ pc # "execute"
                /\ CurStatus = "stopped"
                /\ PrintedInvalid(LastLine)
    /\ \A k \in 1..Len(log) :
          log[k].kind = "dispatch" => FullMatch(commandParser, lines[log[k].idx])

\* C1 witness: the parser succeeded on a prefix of the line only
C1_Witness ==
    /\ JustParsed
    /\ parsed.success
    /\ parsed.index < Len(LastLine)
    /\ cmdOpt = NoCommand

\* a parse that returned no Command, or a dispatch that failed without
\* asking for termination
Failing(e) ==
    \/ e.kind = "parse" /\ ~e.ok /\ ~e.thrown
    \/ e.kind = "dispatch" /\ ~e.ok /\ ~e.exit /\ ~e.thrown

\* C2: after the first line of a task whose parse fails or whose dispatch
\* fails, nothing more of the task is parsed or dispatched, the directory
\* stays as that line left it, and the task is reported as stopped; a line
\* that failed to parse is not dispatched and is printed verbatim as invalid.
C2_StopsOnFirstFailure ==
    \A k \in 1..Len(log) :
        Failing(log[k]) =>
            /\ k = Len(log)
            /\ users = log[k].users
            /\ groups = log[k].groups
            /\ CurStatus = "stopped"
            /\ output[Len(output)] = <<"stopped">>
            /\ ~Printed(<<"completed">>)
            /\ log[k].kind = "parse" =>
                  /\ PrintedInvalid(lines[log[k].idx])
                  /\ \A j \in 1..Len(log) :
                        ~(log[j].kind = "dispatch" /\ log[j].idx = log[k].idx)

\* C2 witness: a dispatch failed on a line that is not the last of its task
C2_Witness ==
    /\ log # <<>>
    /\ Failing(Last)
    /\ Last.kind = "dispatch"
    /\ Last.idx < Len(lines)
    /\ pc \in {"call", "done"}

\* C3: once EXIT is dispatched nothing more of the task is parsed or
\* dispatched, the directory stays as it was, and the task is reported as
\* completed, not as stopped.
C3_ExitEndsTask ==
    \A k \in 1..Len(log) :
        (log[k].kind = "dispatch" /\ log[k].exit) =>
            /\ k = Len(log)
            /\ users = log[k].users
            /\ groups = log[k].groups
            /\ ~Printed(<<"stopped">>)
            /\ \/ pc = "after" /\ CurStatus = "processing"
               \/ pc \in {"call", "done", "terminated"} /\ CurStatus = "completed"
                    /\ output[Len(output)] = <<"completed">>

\* C3 witness: a task completed by an EXIT that is not its last line
C3_Witness ==
    /\ log # <<>>
    /\ Last.kind = "dispatch"
    /\ Last.exit
    /\ Last.idx < Len(lines)
    /\ CurStatus = "completed"

\* the decimal value of a string of digits
RECURSIVE DecimalValue(_)
DecimalValue(digits) ==
    IF digits = <<>> THEN 0
    ELSE 10 * DecimalValue(SubSeq(digits, 1, Len(digits) - 1))
         + DigitValue(digits[Len(digits)])

\* the Command c is the command e of a shape
Denotes(c, e) ==
    /\ c.type = e.type
    /\ c.type \in {"CreateUserCommand", "DeleteUserCommand", "DisableUserCommand",
                   "GetMessageHistoryCommand"} => c.username = e.username
    /\ c.type = "SendMessageCommand" =>
          c.username = e.username /\ c.message = e.message
    /\ c.type \in {"AddUserToGroupCommand", "RemoveUserFromGroupCommand"} =>
          c.username = e.username /\ c.group = e.group
    /\ c.type = "PingCommand" =>
          c.username = e.username /\ c.times = DecimalValue(e.digits)

\* C4: every line that writes one of the eleven command shapes (exact
\* keywords, whitespace between the tokens, identifiers, quoted text, digits)
\* is parsed to the command of that shape, with the fields written in the line.
C4_ShapesParse ==
    (log # <<>> /\ Last.kind = "parse") =>
        \A v \in ValidLines : v.line = LastLine => Denotes(cmdOpt, v.cmd)

GetParsers ==
    { [type |-> "GetUsersCommand", parser |-> getUsersParser],
      [type |-> "GetGroupsCommand", parser |-> getGroupsParser],
      [type |-> "GetMessageHistoryCommand", parser |-> getMessageHistoryParser] }

StartsWithGET(line) == Len(line) >= 3 /\ SubSeq(line, 1, 3) = kwGET

\* C5: every accepted line that starts with GET is matched in full by exactly
\* one of the parsers of GET USERS, GET GROUPS and GET MESSAGE HISTORY, and is
\* parsed to the command of that parser; GET MESSAGE HISTORY <id> is parsed to
\* get-message-history with that username.
C5_GetGrammars ==
    JustParsed =>
        /\ (StartsWithGET(LastLine) /\ cmdOpt # NoCommand) =>
              /\ Cardinality({g \in GetParsers : FullMatch(g.parser, LastLine)}) = 1
              /\ \E g \in GetParsers :
                    FullMatch(g.parser, LastLine) /\ cmdOpt.type = g.type
        /\ \A v \in ValidLines :
              (v.cmd.type = "GetMessageHistoryCommand" /\ v.line = LastLine) =>
                  cmdOpt = v.cmd

\* C5 witness: a GET MESSAGE HISTORY line was parsed
C5_Witness ==
    /\ JustParsed
    /\ StartsWithGET(LastLine)
    /\ cmdOpt.type = "GetMessageHistoryCommand"

\* C6: every command variant has a registered executor, and no dispatch
\* answers "Unknown command".
C6_RegistryExhaustive ==
    /\ DOMAIN executors = CommandTypes
    /\ \A T \in DOMAIN executors :
          executors[T] \in {"CreateUserExecutor", "DeleteUserExecutor",
                            "DisableUserExecutor", "SendMessageExecutor",
                            "PingExecutor", "AddUserToGroupExecutor",
                            "RemoveUserFromGroupExecutor", "GetUsersExecutor",
                            "GetGroupsExecutor", "GetMessageHistoryExecutor",
                            "ExitExecutor"}
    /\ JustDispatched => result.message[1] # "Unknown command"

\* C6 witness: the command of the last alternative of the variant was dispatched
C6_Witness ==
    /\ JustDispatched
    /\ cmdOpt.type = "ExitCommand"
    /\ result.message[1] = "OK EXIT"

\* C7: a dispatch result asks for termination exactly when the command is
\* the exit command, and the result of the exit command has success = true.
C7_ShouldExitIffExit ==
    JustDispatched =>
        /\ result.shouldExit <=> cmdOpt.type = "ExitCommand"
        /\ cmdOpt.type = "ExitCommand" => result.success

\* C7 witness: a command other than EXIT failed without asking for termination
C7_Witness ==
    /\ JustDispatched
    /\ cmdOpt.type # "ExitCommand"
    /\ ~result.success
    /\ ~result.shouldExit

\* the line is a command that names the user
Names(line, username) ==
    LET c == parseCommand(line)
    IN  /\ c.type \in CommandTypes \ {"GetUsersCommand", "GetGroupsCommand", "ExitCommand"}
        /\ c.username = username

\* C8: when the first command of a task is dispatched the directory holds no
\* user and no group, whatever the tasks before left in it; CREATE USER x
\* succeeds when no earlier line of the task names x.
C8_ResetBetweenTasks ==
    /\ (pc = "execute" /\ lineIdx = 1) => (DOMAIN users = {} /\ groups = {})
    /\ (JustDispatched /\ cmdOpt.type = "CreateUserCommand"
          /\ \A j \in 1..(Last.idx - 1) : ~Names(lines[j], cmdOpt.username)) =>
              result.success

\* C8 witness: a task that found a non-empty directory created a user with
\* its first command
C8_Witness ==
    /\ JustDispatched
    /\ LogTask = 2
    /\ dirtyAtCall
    /\ Last.idx = 1
    /\ cmdOpt.type = "CreateUserCommand"
    /\ result.success

\* C9: processTasks processes every listed file: when it is over, every file
\* of the list has been processed, whatever stopped the tasks before it.
C9_EveryTaskProcessed ==
    pc \in {"done", "terminated"} =>
        /\ Len(status) = numTasks
        /\ \A t \in 1..numTasks : status[t] \in {"completed", "stopped"}

\* C10: processTask on a file that cannot be opened throws to its caller and
\* does not report the task as stopped.
C10_CannotOpenThrows ==
    \A t \in 1..Len(opened) :
        ~opened[t] =>
            /\ status[t] = "threw"
            /\ t = Len(status)
            /\ pc = "terminated"

\* C10 witness: the file of the second task could not be opened
C10_Witness ==
    /\ Len(opened) = 2
    /\ ~opened[2]
    /\ status[2] = "threw"

\* the dispatch results of the current task, in order
DispatchResults ==
    LET d == SelectSeq(log, LAMBDA e : e.kind = "dispatch")
    IN  [k \in 1..Len(d) |-> [succeeded |-> d[k].ok, terminate |-> d[k].exit]]

\* the messages of the dispatch results printed by the current task
DispatchMessages ==
    LET m == SelectSeq(output, LAMBDA o : o[1] = "message")
    IN  [k \in 1..Len(m) |-> m[k][2]]

\* the current task is over
TaskOver == log # <<>> /\ CurStatus \in {"completed", "stopped"}

\* C11 as stated: the script CREATE USER a / CREATE USER a / EXIT produces
\* the dispatch results succeeded, failed, succeeded with termination.
C11_ThreeResults ==
    (TaskOver /\ lines = EndToEndScript) =>
        DispatchResults = << [succeeded |-> TRUE, terminate |-> FALSE],
                             [succeeded |-> FALSE, terminate |-> FALSE],
                             [succeeded |-> TRUE, terminate |-> TRUE] >>

\* C11 amended: the script CREATE USER a / CREATE USER a / EXIT produces the
\* dispatch results succeeded, failed (user already exists) and no third one:
\* the task stops at the failure and EXIT is neither parsed nor dispatched.
C11_HaltsAtSecondResult ==
    (TaskOver /\ lines = EndToEndScript) =>
        /\ DispatchResults = << [succeeded |-> TRUE, terminate |-> FALSE],
                                [succeeded |-> FALSE, terminate |-> FALSE] >>
        /\ DispatchMessages = << <<"OK CREATE USER", <<"a">>>>,
                                 <<"FAIL CREATE USER", <<"a">>, "User already exists">> >>
        /\ \A k \in 1..Len(log) : log[k].idx < 3
        /\ CurStatus = "stopped"
        /\ DOMAIN users = {<<"a">>}

\* C11 witness: the task of the script is over
C11_Witness ==
    /\ TaskOver
    /\ lines = EndToEndScript
    /\ Len(log) = 4

\* the entry before the last dispatch: the directory the dispatch started from
Before == log[Len(log) - 1]

\* the registry holds the registrations of registerCommands and no other
StandardRegistry == executors = registerCommands(NoExecutors)

\* the commands that fail for a user that does not exist
NeedUser ==
    {"DeleteUserCommand", "DisableUserCommand", "SendMessageCommand",
     "AddUserToGroupCommand", "RemoveUserFromGroupCommand",
     "GetMessageHistoryCommand"}

PingEntries(message, username, times, exists) ==
    LET stride == IF exists THEN 4 ELSE 2
    IN  /\ Len(message) = 3 + times * stride
        /\ \A j \in 0..(times - 1) :
              /\ message[4 + j * stride] = "Sent ping to"
              /\ message[5 + j * stride] = username

\* C13: PING <id> 0 is parsed to a ping of count 0; the dispatch of a PING of
\* count n succeeds, leaves the directory as it was and writes exactly n
\* "Sent ping" entries into its message, none when n is 0.
C13_PingCount ==
    /\ (JustParsed /\ LastLine = Words(<<kwPING, <<"a">>, <<"0">>>>)) =>
          cmdOpt = [type |-> "PingCommand", username |-> <<"a">>, times |-> 0]
    /\ (JustDispatched /\ StandardRegistry /\ cmdOpt.type = "PingCommand") =>
          /\ result.success
          /\ ~result.shouldExit
          /\ users = Before.users
          /\ groups = Before.groups
          /\ PingEntries(result.message, cmdOpt.username, cmdOpt.times,
                         cmdOpt.username \in DOMAIN users)
          /\ cmdOpt.times = 0 => Len(result.message) = 3

\* C13 witness: PING a 0 was dispatched while the user a exists
C13_Witness ==
    /\ JustDispatched
    /\ StandardRegistry
    /\ cmdOpt.type = "PingCommand"
    /\ cmdOpt.times = 0
    /\ <<"a">> \in DOMAIN users
    /\ result.success

\* C14: a PING line whose count carries a sign or has no digit is rejected;
\* number succeeds at a cursor only if the character there is a decimal
\* digit, and no parsed PingCommand has a negative count.
C14_NoSignedCount ==
    JustParsed =>
        /\ LastLine \in BadCountLines =>
              /\ cmdOpt = NoCommand
              /\ PrintedInvalid(LastLine)
        /\ \A i \in 0..Len(LastLine) :
              number(LastLine, i).success =>
                  i < Len(LastLine) /\ isdigit(At(LastLine, i))
        /\ cmdOpt.type = "PingCommand" => cmdOpt.times >= 0

\* C14 witness: the line PING a -1 was rejected
C14_Witness ==
    /\ JustParsed
    /\ LastLine = Words(<<kwPING, <<"a">>, <<"-", "1">>>>)
    /\ cmdOpt = NoCommand

\* C15: no parse and no dispatch throws: every parse returns a Command or no
\* Command as a value, and every dispatch returns a result.
C15_NeverThrows ==
    \A k \in 1..Len(log) : ~log[k].thrown

\* C16: when a line of a task file is not a command, no command of that file
\* has been executed: nothing was dispatched and the directory is empty.
C16_ValidatedBeforeExecution ==
    (\E k \in 1..Len(log) : log[k].kind = "parse" /\ ~log[k].ok /\ ~log[k].thrown) =>
        /\ \A j \in 1..Len(log) : log[j].kind # "dispatch"
        /\ DOMAIN users = {}
        /\ groups = {}

\* C17: REMOVE USER u FROM GROUP g fails when u exists and is not a member
\* of g.
C17_RemoveNonMemberFails ==
    (/\ JustDispatched
     /\ StandardRegistry
     /\ cmdOpt.type = "RemoveUserFromGroupCommand"
     /\ cmdOpt.username \in DOMAIN Before.users
     /\ cmdOpt.group \notin Before.users[cmdOpt.username].groups) =>
        ~result.success

\* C18: PING u n fails when the user u does not exist.
C18_PingAbsentUserFails ==
    (/\ JustDispatched
     /\ StandardRegistry
     /\ cmdOpt.type = "PingCommand"
     /\ cmdOpt.username \notin DOMAIN Before.users) =>
        ~result.success

\* C19: a line that differs from a command only by the letter case of a
\* keyword, by a keyword with a missing or wrong letter, or by two keywords
\* written without whitespace between them, is rejected as invalid.
C19_KeywordsExact ==
    (JustParsed /\ LastLine \in KeywordLines) =>
        /\ cmdOpt = NoCommand
        /\ PrintedInvalid(LastLine)
        /\ CurStatus = "stopped"

\* C19 witness: the line Get Users was rejected
C19_Witness ==
    /\ JustParsed
    /\ LastLine = <<"G", "e", "t", SP, "U", "s", "e", "r", "s">>
    /\ cmdOpt = NoCommand

\* C20: the dispatch of a command whose variant has no registered executor
\* does not throw; it returns success = false, "Unknown command" and
\* shouldExit = false, and leaves the directory as it was.
C20_UnknownCommand ==
    (log # <<>> /\ Last.kind = "dispatch" /\ cmdOpt.type \notin DOMAIN executors) =>
        /\ ~Last.thrown
        /\ result = [success |-> FALSE, message |-> <<"Unknown command">>,
                     shouldExit |-> FALSE]
        /\ users = Before.users
        /\ groups = Before.groups

\* C20 witness: CREATE USER a dispatched on a registry without registrations
C20_Witness ==
    /\ JustDispatched
    /\ executors = NoExecutors
    /\ cmdOpt.type = "CreateUserCommand"
    /\ ~result.success
    /\ DOMAIN users = {}

\* the characters readTaskFile takes for whitespace at the ends of a line
Blank(c) == c \in {SP, TAB, CR, LF}

\* n is the raw line without its comment and without the whitespace at its
\* ends: some part raw[a..b] before the first '#', with only whitespace
\* between it and the start of the line and between it and the '#' or the end
IsNormalOf(n, raw) ==
    \E a \in 1..(Len(raw) + 1), b \in 0..Len(raw) :
        /\ a <= b + 1
        /\ n = SubSeq(raw, a, b)
        /\ \A k \in 1..b : raw[k] # HASH
        /\ \A k \in 1..(a - 1) : Blank(raw[k])
        /\ \E e \in b..Len(raw) :
              /\ \A k \in (b + 1)..e : Blank(raw[k])
              /\ e = Len(raw) \/ raw[e + 1] = HASH
        /\ n # <<>> => ~Blank(n[1]) /\ ~Blank(n[Len(n)])

\* the raw line holds a comment or whitespace only
CommentOrBlank(raw) == IsNormalOf(<<>>, raw)

\* ls holds the normal forms of the lines of f that are not comments or
\* blank, in the order of f
IsReadOf(ls, f) ==
    LET kept == {k \in 1..Len(f) : ~CommentOrBlank(f[k])}
        nth(j) == CHOOSE k \in kept : Cardinality({m \in kept : m < k}) = j - 1
    IN  /\ Len(ls) = Cardinality(kept)
        /\ \A j \in 1..Len(ls) : IsNormalOf(ls[j], f[nth(j)])

\* C21: the lines handed to the parser are the lines of the file without
\* their comment and the whitespace at their ends, those left empty skipped,
\* in file order; a file of comments and blank lines only dispatches nothing
\* and is reported as completed.
C21_NormalizedLines ==
    /\ IsReadOf(lines, fileLines)
    /\ ((\E t \in 1..Len(opened) : opened[t]) /\ pc # "read") =>
          ((\A k \in 1..Len(fileLines) : CommentOrBlank(fileLines[k])) =>
              /\ lines = <<>>
              /\ log = <<>>
              /\ pc \in {"call", "done", "terminated"} =>
                    /\ CurStatus = "completed"
                    /\ output = <<<<"completed">>>>)

\* C21 witness: a file with a comment line, then a command between blanks
\* and a comment
C21_Witness ==
    /\ Len(fileLines) = 2
    /\ CommentOrBlank(fileLines[1])
    /\ lines = <<kwEXIT>>
    /\ fileLines[2] # kwEXIT
    /\ log # <<>>
    /\ CurStatus = "completed"

\* C22: GET MESSAGE HISTORY u succeeds for an existing user u and returns the
\* messages of the SEND MESSAGE commands that succeeded for u since u was
\* last created, in the order they were sent, each text unchanged.
C22_MessageHistory ==
    (JustDispatched /\ StandardRegistry
        /\ cmdOpt.type = "GetMessageHistoryCommand"
        /\ cmdOpt.username \in DOMAIN Before.users) =>
            /\ result.success
            /\ cmdOpt.username \in DOMAIN sent
            /\ result.message = <<"OK GET MESSAGE HISTORY", cmdOpt.username,
                                  sent[cmdOpt.username]>>
            /\ users = Before.users

\* C22 witness: the history of a user that got two different messages
C22_Witness ==
    /\ JustDispatched
    /\ StandardRegistry
    /\ cmdOpt.type = "GetMessageHistoryCommand"
    /\ result.success
    /\ result.message[3] = << <<"h", "i">>, <<"y", SP, "o">> >>

\* the elements of a list
Elements(list) == {list[k] : k \in 1..Len(list)}

\* the groups that have at least one existing user as a member
GroupsWithMembers == UNION {users[u].groups : u \in DOMAIN users}

\* C23: in every state of the directory the groups GET GROUPS reports are
\* the groups that have at least one existing user as a member.
C23_GroupsHaveMembers ==
    StandardRegistry =>
        /\ Elements(getGroups(groups)) = GroupsWithMembers
        /\ (JustDispatched /\ cmdOpt.type = "GetGroupsCommand") =>
              /\ result.success
              /\ Elements(result.message[2]) = GroupsWithMembers

\* x comes before y in lexicographic order of the character codes
LexBefore(x, y) ==
    \E k \in 1..(Len(y)) :
        /\ k <= Len(x) + 1
        /\ \A j \in 1..(k - 1) : x[j] = y[j]
        /\ k = Len(x) + 1 \/ CharCode(x[k]) < CharCode(y[k])

\* C24: GET USERS succeeds and lists the users created since the last reset
\* and not deleted since, disabled ones too, each once, in ascending
\* lexicographic order.
C24_UsersListed ==
    (JustDispatched /\ StandardRegistry /\ cmdOpt.type = "GetUsersCommand") =>
        LET list == result.message[2]
        IN  /\ result.success
            /\ Elements(list) = DOMAIN sent
            /\ \A i, j \in 1..Len(list) : i < j => LexBefore(list[i], list[j])
            /\ users = Before.users

\* C24 witness: three users listed, one of them disabled
C24_Witness ==
    /\ JustDispatched
    /\ StandardRegistry
    /\ cmdOpt.type = "GetUsersCommand"
    /\ result.message[2] = << <<"B", "_", "2">>, <<"a">>, <<"b">> >>
    /\ ~users[<<"a">>].enabled

\* the eleven per-command parsers in the order create-user, delete-user,
\* disable-user, send-message, ping, add-to-group, remove-from-group,
\* get-users, get-groups, get-message-history, exit
Alternatives ==
    << createUserParser, deleteUserParser, disableUserParser, sendMessageParser,
       pingParser, addUserToGroupParser, removeUserFromGroupParser,
       getUsersParser, getGroupsParser, getMessageHistoryParser, exitParser >>

\* the alternatives that succeed on the line from cursor 0
Succeeding(line) ==
    {k \in 1..Len(Alternatives) : Run(Alternatives[k], line, 0).success}

\* C25: the outcome of the top-level parser on a line is the outcome, from
\* cursor 0, of the first of the eleven per-command parsers that succeeds
\* from cursor 0; it fails only if all eleven fail from cursor 0, and its
\* failure is then the failure of the last one from cursor 0.
C25_FirstMatchWins ==
    (log # <<>> /\ Last.kind = "parse") =>
        LET S == Succeeding(LastLine)
            first == CHOOSE k \in S : \A j \in S : k <= j
        IN  /\ S # {} => parsed = Run(Alternatives[first], LastLine, 0)
            /\ ~parsed.success => S = {}
            /\ (S = {} /\ ~parsed.thrown) =>
                  parsed = Run(Alternatives[Len(Alternatives)], LastLine, 0)

\* C25 witness: GET GROUPS, on which the alternative of GET USERS fails after
\* the keyword GET and the whitespace, and the next alternative succeeds
C25_Witness ==
    /\ JustParsed
    /\ Succeeding(LastLine) = {9}
    /\ Run(Alternatives[8], LastLine, 0).index > 0
    /\ parsed.success
    /\ parsed.index = Len(LastLine)

\* the variants of the eleven per-command parsers, in the order of Alternatives
Variants ==
    << "CreateUserCommand", "DeleteUserCommand", "DisableUserCommand",
       "SendMessageCommand", "PingCommand", "AddUserToGroupCommand",
       "RemoveUserFromGroupCommand", "GetUsersCommand", "GetGroupsCommand",
       "GetMessageHistoryCommand", "ExitCommand" >>

\* the alternatives that, run alone from cursor 0, succeed on the whole line
Matching(line) ==
    {k \in 1..Len(Alternatives) : FullMatch(Alternatives[k], line)}

\* C26: a line is accepted by parseCommand if and only if one of the eleven
\* per-command parsers, run alone from cursor 0, succeeds on the whole line;
\* the command is then the value and the variant of that parser.
C26_NoMasking ==
    (log # <<>> /\ Last.kind = "parse") =>
        /\ cmdOpt # NoCommand <=> Matching(LastLine) # {}
        /\ \A k \in Matching(LastLine) :
              /\ cmdOpt.type = Variants[k]
              /\ cmdOpt = Run(Alternatives[k], LastLine, 0).value

\* C26 witness: GET MESSAGE HISTORY a, accepted as the tenth alternative
\* after the alternatives of GET USERS and GET GROUPS failed
C26_Witness ==
    /\ JustParsed
    /\ Matching(LastLine) = {10}
    /\ cmdOpt.type = "GetMessageHistoryCommand"

\* a failure returned by a parser started at cursor i reports the cursor i
FailsAt(o, i) == (~o.success /\ ~o.thrown) => o.index = i

\* C27: a primitive parser (character, whitespace, identifier, quotedString,
\* number, keyword) that fails reports the cursor at which it was started,
\* for every line and every start cursor, a quoted string whose closing
\* quote is missing included.
C27_FailureCursorNotAdvanced ==
    (log # <<>> /\ Last.kind = "parse") =>
        \A i \in 0..Len(LastLine) :
            /\ \A c \in {QUOTE, SP, "a"} : FailsAt(character(c, LastLine, i), i)
            /\ FailsAt(whitespace(LastLine, i), i)
            /\ FailsAt(identifier(LastLine, i), i)
            /\ FailsAt(number(LastLine, i), i)
            /\ \A w \in AllKeywords : FailsAt(keyword(w, LastLine, i), i)
            /\ FailsAt(quotedString(LastLine, i), i)

\* the end of the maximal run of space and tab characters at cursor i
RECURSIVE SpaceTabRun(_, _)
SpaceTabRun(s, i) ==
    IF i < Len(s) /\ At(s, i) \in {SP, TAB} THEN SpaceTabRun(s, i + 1) ELSE i

\* the line has a carriage return, line feed, vertical tab or form feed
\* before any quoted text
OddSeparator(line) ==
    \E p \in 1..Len(line) :
        /\ line[p] \in {CR, LF, VT, FF}
        /\ \A q \in 1..(p - 1) : line[q] # QUOTE

\* C28: whitespace consumes exactly the maximal run of space and tab
\* characters at the cursor and fails if that run is empty; a line with
\* another character (carriage return, vertical tab, form feed) between two
\* tokens is rejected.
C28_SpaceTabOnly ==
    (log # <<>> /\ Last.kind = "parse") =>
        /\ \A i \in 0..Len(LastLine) :
              LET r == SpaceTabRun(LastLine, i)
                  o == whitespace(LastLine, i)
              IN  IF r = i THEN ~o.success
                  ELSE o = makeSuccess(substr(LastLine, i, r - i), r)
        /\ OddSeparator(LastLine) => cmdOpt = NoCommand

\* a letter, a digit or an underscore
NameChar(c) == isalnum(c) \/ c = "_"

\* a name that is not empty, starts with a letter and holds only letters,
\* digits and underscores
WellFormedName(n) ==
    /\ n # <<>>
    /\ isalpha(n[1])
    /\ \A k \in 1..Len(n) : NameChar(n[k])

\* the end of the maximal run of letters, digits and underscores at cursor i
NameEnd(line, i) ==
    CHOOSE j \in i..Len(line) :
        /\ \A k \in i..(j - 1) : NameChar(At(line, k))
        /\ j = Len(line) \/ ~NameChar(At(line, j))

\* a CREATE, DELETE or DISABLE USER line whose name starts with a digit or
\* an underscore
BadName(line) ==
    \E w \in {kwCREATE, kwDELETE, kwDISABLE} :
        LET pre == w \o <<SP>> \o kwUSER \o <<SP>>
        IN  /\ Len(line) > Len(pre)
            /\ SubSeq(line, 1, Len(pre)) = pre
            /\ isdigit(line[Len(pre) + 1]) \/ line[Len(pre) + 1] = "_"

\* C29: identifier succeeds exactly when the character at the cursor is a
\* letter, and then captures the maximal run of letters, digits and
\* underscores; every user name and group name stored in the directory is
\* not empty, starts with a letter and holds only letters, digits and
\* underscores; a line such as CREATE USER 1bob or CREATE USER _x is rejected.
C29_Identifiers ==
    /\ \A u \in DOMAIN users :
          /\ WellFormedName(u)
          /\ WellFormedName(users[u].username)
          /\ \A g \in users[u].groups : WellFormedName(g)
    /\ \A g \in groups : WellFormedName(g)
    /\ (log # <<>> /\ Last.kind = "parse") =>
          /\ \A i \in 0..Len(LastLine) :
                LET o == identifier(LastLine, i)
                    j == NameEnd(LastLine, i)
                IN  IF i < Len(LastLine) /\ isalpha(At(LastLine, i))
                    THEN o = makeSuccess(substr(LastLine, i, j - i), j)
                    ELSE ~o.success
          /\ BadName(LastLine) => cmdOpt = NoCommand

\* C29 witness: the user a1 was created and ADD USER a1 TO GROUP g_2 has
\* stored the group g_2
C29_Witness ==
    /\ JustDispatched
    /\ cmdOpt.type = "AddUserToGroupCommand"
    /\ result.success
    /\ groups = {<<"g", "_", "2">>}
    /\ DOMAIN users = {<<"a", "1">>}
    /\ users[<<"a", "1">>].groups = groups

\* the cursors after cursor i at which the line has a quote
QuotesAfter(line, i) == {q \in (i + 1)..(Len(line) - 1) : At(line, q) = QUOTE}

\* the beginning of a SEND MESSAGE line up to the opening quote of its text
SendPrefix == Words(<<kwSEND, kwMESSAGE, <<"a">>, <<QUOTE>>>>)

\* C30: quotedString requires an opening quote, captures every character up
\* to the next quote as it stands, with no escape processing, consumes the
\* closing quote, and fails when there is no closing quote; the empty
\* message "" is accepted; a SEND MESSAGE line whose text has a quote after
\* a backslash is cut at that quote and rejected for its trailing input.
C30_QuotedVerbatim ==
    (log # <<>> /\ Last.kind = "parse") =>
        /\ \A i \in 0..Len(LastLine) :
              LET o == quotedString(LastLine, i)
                  Q == QuotesAfter(LastLine, i)
                  q == CHOOSE c \in Q : \A d \in Q : c <= d
              IN  IF i < Len(LastLine) /\ At(LastLine, i) = QUOTE /\ Q # {}
                  THEN o = makeSuccess(substr(LastLine, i + 1, q - i - 1), q + 1)
                  ELSE ~o.success
        /\ LastLine = SendPrefix \o <<QUOTE>> =>
              cmdOpt = [type |-> "SendMessageCommand", username |-> <<"a">>,
                        message |-> <<>>]
        /\ \A p \in (Len(SendPrefix) + 1)..(Len(LastLine) - 1) :
              ( /\ SubSeq(LastLine, 1, Len(SendPrefix)) = SendPrefix
                /\ LastLine[p] = BACKSLASH
                /\ LastLine[p + 1] = QUOTE
                /\ \A k \in (Len(SendPrefix) + 1)..p : LastLine[k] # QUOTE )
              => /\ parsed.success
                 /\ parsed.index = p + 1
                 /\ parsed.value.message = SubSeq(LastLine, Len(SendPrefix) + 1, p)
                 /\ p + 1 < Len(LastLine) => cmdOpt = NoCommand

\* C30 witness: SEND MESSAGE a "h\"i" is parsed up to the quote after the
\* backslash, with the text h\, and is rejected for the trailing i"
C30_Witness ==
    /\ JustParsed
    /\ LastLine = SendPrefix \o <<"h", BACKSLASH, QUOTE, "i", QUOTE>>
    /\ parsed.success
    /\ parsed.value.message = <<"h", BACKSLASH>>
    /\ parsed.index = Len(LastLine) - 2
    /\ cmdOpt = NoCommand

\* the executor written for each variant of Command
OwnExecutor ==
    [T \in CommandTypes |->
        CASE T = "CreateUserCommand" -> "CreateUserExecutor"
          [] T = "DeleteUserCommand" -> "DeleteUserExecutor"
          [] T = "DisableUserCommand" -> "DisableUserExecutor"
          [] T = "SendMessageCommand" -> "SendMessageExecutor"
          [] T = "PingCommand" -> "PingExecutor"
          [] T = "AddUserToGroupCommand" -> "AddUserToGroupExecutor"
          [] T = "RemoveUserFromGroupCommand" -> "RemoveUserFromGroupExecutor"
          [] T = "GetUsersCommand" -> "GetUsersExecutor"
          [] T = "GetGroupsCommand" -> "GetGroupsExecutor"
          [] T = "GetMessageHistoryCommand" -> "GetMessageHistoryExecutor"
          [] T = "ExitCommand" -> "ExitExecutor"]

\* C31: the dispatch of a parsed command reaches the executor registered for
\* the command's own variant, which is the executor written for that variant,
\* and returns that executor's result unchanged; no executor receives a
\* command of another variant, so std::get never throws.
C31_RoutedToOwnExecutor ==
    (log # <<>> /\ Last.kind = "dispatch") =>
        /\ cmdOpt.type \in DOMAIN executors
        /\ executors[cmdOpt.type] = OwnExecutor[cmdOpt.type]
        /\ ~Last.thrown
        /\ LET r == Execute(OwnExecutor[cmdOpt.type], cmdOpt, Before.users,
                            Before.groups)
           IN  /\ ~r.thrown
               /\ result = [success |-> r.success, message |-> r.message,
                            shouldExit |-> r.shouldExit]
               /\ users = r.users
               /\ groups = r.groups

\* C31 witness: DELETE USER a dispatched after CREATE USER a, the user gone
C31_Witness ==
    /\ JustDispatched
    /\ cmdOpt = [type |-> "DeleteUserCommand", username |-> <<"a">>]
    /\ Before.users # NoUsers
    /\ users = NoUsers
    /\ result.success

\* C32: the registry is built once and read-only thereafter: once lines are
\* dispatched no step adds, removes or replaces an association of a variant
\* with an executor, and a registration for a variant that already has an
\* executor leaves that executor in place.
C32_RegistryReadOnly ==
    [][ /\ pc = "serving" => executors' = executors
        /\ \A T \in DOMAIN executors :
              T \in DOMAIN executors' /\ executors'[T] = executors[T] ]_vars

\* C33: a dispatch that returns success = false leaves the directory as it
\* was before the dispatch: the same users with the same enabled flags,
\* message histories and memberships, and the same set of groups.
C33_FailureChangesNothing ==
    (log # <<>> /\ Last.kind = "dispatch" /\ ~Last.thrown /\ ~result.success) =>
        /\ users = Before.users
        /\ groups = Before.groups

\* C33 witness: SEND MESSAGE to a disabled user that has a message and a
\* group fails
C33_Witness ==
    /\ JustDispatched
    /\ StandardRegistry
    /\ cmdOpt.type = "SendMessageCommand"
    /\ ~result.success
    /\ cmdOpt.username \in DOMAIN users
    /\ ~users[cmdOpt.username].enabled
    /\ users[cmdOpt.username].messages # <<>>
    /\ users[cmdOpt.username].groups # {}

\* the user u is in the directory of the log entry e and is disabled there
DisabledIn(e, u) == u \in DOMAIN e.users /\ ~e.users[u].enabled

\* the command is of the type T and is about the user u
IsOn(cmd, T, u) == cmd.type = T /\ cmd.username = u

\* C34: a disabled user stays disabled in every later state of the task until
\* it is deleted; DISABLE USER on it succeeds and changes nothing; SEND
\* MESSAGE to it fails and the task stops, and its message history does not
\* grow; ADD to and REMOVE from a group and GET MESSAGE HISTORY on it succeed.
C34_DisabledStays ==
    /\ \A k \in 1..Len(log) : \A u \in DOMAIN log[k].users :
          DisabledIn(log[k], u) =>
              /\ \A j \in k..Len(log) :
                    (u \in DOMAIN log[j].users /\ log[j].users[u].enabled) =>
                        \E i \in k..j : u \notin DOMAIN log[i].users
              /\ (k = Len(log)) => DisabledIn([users |-> users], u)
    /\ (log # <<>> /\ Last.kind = "dispatch" /\ ~Last.thrown) =>
          \A u \in DOMAIN Before.users :
              DisabledIn(Before, u) =>
                  /\ u \in DOMAIN users =>
                        /\ ~users[u].enabled
                        /\ users[u].messages = Before.users[u].messages
                  /\ u \notin DOMAIN users =>
                        IsOn(cmdOpt, "DeleteUserCommand", u)
                  /\ IsOn(cmdOpt, "DisableUserCommand", u) =>
                        /\ result.success
                        /\ users = Before.users
                        /\ groups = Before.groups
                  /\ IsOn(cmdOpt, "SendMessageCommand", u) =>
                        /\ ~result.success
                        /\ CurStatus = "stopped"
                        /\ pc \in {"call", "done", "terminated"}
                  /\ (\/ IsOn(cmdOpt, "AddUserToGroupCommand", u)
                      \/ IsOn(cmdOpt, "RemoveUserFromGroupCommand", u)
                      \/ IsOn(cmdOpt, "GetMessageHistoryCommand", u)) =>
                        result.success

\* C34 witness: SEND MESSAGE to the disabled user a, which has one message
\* and was added to a group after it was disabled, fails and stops the task
C34_Witness ==
    /\ JustDispatched
    /\ cmdOpt.type = "SendMessageCommand"
    /\ DisabledIn(Before, cmdOpt.username)
    /\ Before.users[cmdOpt.username].groups # {}
    /\ users[cmdOpt.username].messages = << <<"h", "i">> >>
    /\ ~result.success
    /\ CurStatus = "stopped"

\* the variants of GET USERS, GET GROUPS, GET MESSAGE HISTORY, PING and EXIT
ReadingTypes ==
    {"GetUsersCommand", "GetGroupsCommand", "GetMessageHistoryCommand",
     "PingCommand", "ExitCommand"}

\* C35: a dispatch of GET USERS, GET GROUPS, GET MESSAGE HISTORY, PING or
\* EXIT leaves the directory unchanged whatever its outcome; a dispatch of
\* CREATE USER, DELETE USER, DISABLE USER, SEND MESSAGE, ADD USER TO GROUP or
\* REMOVE USER FROM GROUP changes at most the record of the user it names
\* and, for DELETE, ADD and REMOVE only, the set of groups.
C35_FrameOfCommands ==
    (log # <<>> /\ Last.kind = "dispatch") =>
        /\ cmdOpt.type \in ReadingTypes =>
              /\ users = Before.users
              /\ groups = Before.groups
        /\ cmdOpt.type \notin ReadingTypes =>
              /\ \A u \in (DOMAIN users \cup DOMAIN Before.users) \ {cmdOpt.username} :
                    /\ u \in DOMAIN users
                    /\ u \in DOMAIN Before.users
                    /\ users[u] = Before.users[u]
              /\ cmdOpt.type \in {"CreateUserCommand", "DisableUserCommand",
                                  "SendMessageCommand"} =>
                    groups = Before.groups

\* C35 witness: ADD USER b TO GROUP g while the user a is in the directory
\* puts g into the record of b and into the set of groups
C35_Witness ==
    /\ JustDispatched
    /\ StandardRegistry
    /\ cmdOpt.type = "AddUserToGroupCommand"
    /\ result.success
    /\ DOMAIN users \ {cmdOpt.username} # {}
    /\ users[cmdOpt.username] # Before.users[cmdOpt.username]
    /\ groups # Before.groups

\* the terminal statuses the current task has printed
TerminalPrinted ==
    {k \in 1..Len(output) : output[k] \in {<<"completed">>, <<"stopped">>}}

\* the index of the first EXIT of the lines, or of the last line
LastLineRun ==
    LET E == {k \in 1..Len(lines) : parseCommand(lines[k]).type = "ExitCommand"}
    IN  IF E = {} THEN Len(lines) ELSE CHOOSE k \in E : \A j \in E : k <= j

\* every line up to the first EXIT was parsed and dispatched with success
AllSucceeded ==
    \A i \in 1..LastLineRun :
        /\ \E k \in 1..Len(log) :
              log[k].kind = "parse" /\ log[k].idx = i /\ log[k].ok /\ ~log[k].thrown
        /\ \E k \in 1..Len(log) :
              log[k].kind = "dispatch" /\ log[k].idx = i /\ log[k].ok /\ ~log[k].thrown

\* a file was opened and the task of the last one is still running
Running == (\E t \in 1..Len(opened) : opened[t]) /\ CurStatus = "processing"

\* a file was opened and the task of the last one has ended
Ended == (\E t \in 1..Len(opened) : opened[t]) /\ CurStatus # "processing"

\* while a task runs it has printed no terminal status; when it has ended
\* it has printed exactly one, completed exactly when every line up to the
\* first EXIT, or to the end of the file, was parsed and dispatched with
\* success, and stopped otherwise
OneTerminalStatus ==
    /\ Running => TerminalPrinted = {}
    /\ Ended =>
          /\ Cardinality(TerminalPrinted) = 1
          /\ CurStatus \in {"completed", "stopped"}
          /\ output[Len(output)] = <<CurStatus>>
          /\ CurStatus = "completed" <=> AllSucceeded

\* C36: the processing of a readable task file terminates and emits exactly
\* one terminal status: completed successfully if and only if every line up
\* to the first EXIT (or the end of the file) parsed and dispatched with
\* success, stopped due to failure otherwise; never both and never neither.
C36_OneStatusAlways ==
    /\ []OneTerminalStatus
    /\ Running ~> Ended

\* C36 witness: a task with an EXIT before its last line has ended as
\* completed, the lines after the EXIT never parsed
C36_Witness ==
    /\ Ended
    /\ CurStatus = "completed"
    /\ LastLineRun < Len(lines)
    /\ AllSucceeded
    /\ TerminalPrinted = {Len(output)}

\* the raw line is a SEND MESSAGE to a whose quoted text holds a '#'
HashInText(raw) ==
    /\ Len(raw) > Len(SendPrefix)
    /\ SubSeq(raw, 1, Len(SendPrefix)) = SendPrefix
    /\ \E p \in (Len(SendPrefix) + 1)..Len(raw) :
          /\ raw[p] = HASH
          /\ \A k \in (Len(SendPrefix) + 1)..(p - 1) : raw[k] # QUOTE

\* C37: a SEND MESSAGE line whose quoted text holds a '#' reaches the parser
\* cut at the '#' and is rejected; no message in the history of a user holds
\* a '#' or a quote.
C37_NoHashDelivered ==
    /\ \A u \in DOMAIN users :
          \A k \in 1..Len(users[u].messages) :
              \A p \in 1..Len(users[u].messages[k]) :
                  users[u].messages[k][p] \notin {HASH, QUOTE}
    /\ (log # <<>> /\ Last.kind = "parse") =>
          \A k \in 1..Len(fileLines) :
              (HashInText(fileLines[k]) /\ IsNormalOf(LastLine, fileLines[k])) =>
                  /\ Len(LastLine) < Len(fileLines[k])
                  /\ \A p \in 1..Len(LastLine) : LastLine[p] # HASH
                  /\ ~parsed.success
                  /\ cmdOpt = NoCommand

\* C37 witness: after CREATE USER a the line SEND MESSAGE a "h#i" is parsed
\* as SEND MESSAGE a "h and rejected, and a has no message
C37_Witness ==
    /\ JustParsed
    /\ Len(fileLines) = 2
    /\ fileLines[2] = SendPrefix \o <<"h", HASH, "i", QUOTE>>
    /\ LastLine = SendPrefix \o <<"h">>
    /\ cmdOpt = NoCommand
    /\ DOMAIN users = {<<"a">>}
    /\ users[<<"a">>].messages = <<>>

=============================================================================
